---- MODULE Spec2Model ----
(***************************************************************************)
(* Prediction request pipeline of the diabetes-prediction backend:         *)
(* the validatePredictionInput middleware, the POST /predict handler with  *)
(* its error classification, and the POST /predict-batch handler.          *)
(*                                                                         *)
(* JavaScript values are tagged records.  A number x is carried as the     *)
(* integer 10*x (one decimal digit), NaN has its own tag.                  *)
(***************************************************************************)
EXTENDS Integers, Sequences, FiniteSets, TLC

VARIABLES
  pc,         \* position of the request in its pipeline
  route,      \* route the request was posted to
  body,       \* req.body
  sent,       \* responses written to res, in order
  nextCalls,  \* number of next() calls made by the middleware
  invokes,    \* params of the sagemakerRuntime.invokeEndpoint calls, in order
  replies,    \* how the endpoint settled each call, in order
  thrown,     \* errors caught by the /predict handler's catch, in order
  results,    \* the batch handler's results array
  idx,        \* the batch handler's loop index i
  frame,      \* locals of the /predict handler
  now,        \* Date.now()
  cur,        \* the request whose handler the event loop is running
  parked,     \* the other requests' state, each suspended at an await
  formData,   \* PatientForm: the controls' values
  validated,  \* PatientForm: validation feedback is shown
  isSubmitting, \* PatientForm: a submission is under way
  loading,    \* App: a prediction is under way
  predictionResult, \* App: the result shown
  appError,   \* App: the error state
  appPatientData, \* App: the patientData state
  fpc,        \* position of handlePrediction and of the predictDiabetesRisk it awaits
  issued,     \* outbound requests issued by the current predictDiabetesRisk call
  useBackendProxy, \* process.env.REACT_APP_USE_BACKEND_PROXY as the call read it
  settlement, \* how the predictDiabetesRisk call settled
  listening,  \* server.js: the server accepts connections
  connections, \* server.js: connections the server holds open
  closeCallbacks, \* server.js: callbacks of server.close waiting for 'close'
  timers,     \* server.js: seconds left on each armed forced-shutdown timer
  signals,    \* server.js: termination signals handled so far
  exited,     \* server.js: process.exit has been called
  exitCode    \* server.js: the code it was called with

formVars == <<formData, validated, isSubmitting>>

frontVars ==
  <<loading, predictionResult, appError, appPatientData, fpc, issued, useBackendProxy,
    settlement>>

procVars == <<listening, connections, closeCallbacks, timers, signals, exited, exitCode>>

serverVars ==
  <<pc, route, body, sent, nextCalls, invokes, replies, thrown, results, idx, frame, now,
    cur, parked, procVars>>

vars ==
  <<pc, route, body, sent, nextCalls, invokes, replies, thrown, results, idx, frame, now,
    cur, parked, formVars, frontVars, procVars>>

----------------------------------------------------------------------------
(* JavaScript values *)

Undef == [t |-> "undefined"]
Null == [t |-> "null"]
NaN == [t |-> "NaN"]
Dec(tenths) == [t |-> "number", n |-> tenths]
Num(k) == [t |-> "number", n |-> k * 10]
Str(s) == [t |-> "string", s |-> s]
Bool(b) == [t |-> "boolean", b |-> b]
Arr(a) == [t |-> "array", a |-> a]
Obj(o) == [t |-> "object", o |-> o]
\* a string of prose (never a numeric literal), a timestamp string
Text(s) == [t |-> "string", text |-> s]
IsoTime(ms) == [t |-> "string", iso |-> ms]
EmptyObject == [k \in {} |-> Undef]

Digits == <<"0", "1", "2", "3", "4", "5", "6", "7", "8", "9">>
IsDigit(c) == \E d \in 1..10 : Digits[d] = c
DigitVal(c) == (CHOOSE d \in 1..10 : Digits[d] = c) - 1
AllDigits(s) == \A i \in 1..Len(s) : IsDigit(s[i])

RECURSIVE DigitsValue(_)
DigitsValue(s) ==
  IF Len(s) = 0 THEN 0
  ELSE DigitsValue(SubSeq(s, 1, Len(s) - 1)) * 10 + DigitVal(s[Len(s)])

RECURSIVE TrimLeft(_)
TrimLeft(s) == IF Len(s) > 0 /\ s[1] = " " THEN TrimLeft(Tail(s)) ELSE s

RECURSIVE TrimRight(_)
TrimRight(s) ==
  IF Len(s) > 0 /\ s[Len(s)] = " " THEN TrimRight(SubSeq(s, 1, Len(s) - 1)) ELSE s

\* StrUnsignedDecimalLiteral: digits, digits "." digits, "." digits.
\* At most one fractional digit is representable.
DecimalToNumber(ip, fp) ==
  IF AllDigits(ip) /\ AllDigits(fp) /\ Len(ip) + Len(fp) > 0 /\ Len(fp) <= 1
  THEN Dec(DigitsValue(ip) * 10 + DigitsValue(fp))
  ELSE NaN

SplitAtDot(s, p) == DecimalToNumber(SubSeq(s, 1, p - 1), SubSeq(s, p + 1, Len(s)))

UnsignedToNumber(s) ==
  IF \A i \in 1..Len(s) : s[i] # "." THEN
    IF Len(s) > 0 /\ AllDigits(s) THEN Dec(DigitsValue(s) * 10) ELSE NaN
  ELSE IF Cardinality({i \in 1..Len(s) : s[i] = "."}) = 1 THEN
    SplitAtDot(s, CHOOSE i \in 1..Len(s) : s[i] = ".")
  ELSE NaN

\* ToNumber applied to a String: white space is stripped, the empty string
\* is 0, an optional sign precedes the decimal literal, anything else is NaN.
Negate(u) == IF u = NaN THEN NaN ELSE Dec(0 - u.n)

SignedToNumber(w) ==
  IF Len(w) = 0 THEN Dec(0)
  ELSE IF w[1] \in {"-", "+"} THEN
    IF w[1] = "-" THEN Negate(UnsignedToNumber(Tail(w))) ELSE UnsignedToNumber(Tail(w))
  ELSE UnsignedToNumber(w)

StringToNumber(s) == SignedToNumber(TrimRight(TrimLeft(s)))

RECURSIVE NatToString(_)
NatToString(k) ==
  IF k < 10 THEN <<Digits[k + 1]>>
  ELSE NatToString(k \div 10) \o <<Digits[(k % 10) + 1]>>

MagnitudeToString(a) ==
  NatToString(a \div 10) \o (IF a % 10 = 0 THEN <<>> ELSE <<".", Digits[(a % 10) + 1]>>)

NumberToString(n) ==
  IF n < 0 THEN <<"-">> \o MagnitudeToString(0 - n) ELSE MagnitudeToString(n)

\* ToString of a primitive, as Array.prototype.join applies it to an element
\* (null and undefined elements give the empty string).
ElementToString(v) ==
  CASE v.t = "string" /\ "s" \in DOMAIN v -> v.s
    [] v.t = "string" -> <<"?">>
    [] v.t = "number" -> NumberToString(v.n)
    [] v.t = "NaN" -> <<"N", "a", "N">>
    [] v.t = "boolean" -> IF v.b THEN <<"t", "r", "u", "e">> ELSE <<"f", "a", "l", "s", "e">>
    [] OTHER -> <<>>

RECURSIVE ArrayToString(_)
ArrayToString(a) ==
  IF Len(a) = 0 THEN <<>>
  ELSE IF Len(a) = 1 THEN ElementToString(a[1])
  ELSE ElementToString(a[1]) \o <<",">> \o ArrayToString(Tail(a))

\* ToNumber: what Number(x), isNaN(x) and a comparison with a number apply.
JsToNumber(v) ==
  CASE v.t = "undefined" -> NaN
    [] v.t = "null" -> Dec(0)
    [] v.t = "boolean" -> IF v.b THEN Num(1) ELSE Num(0)
    [] v.t = "number" -> v
    [] v.t = "NaN" -> NaN
    [] v.t = "string" -> IF "s" \in DOMAIN v THEN StringToNumber(v.s) ELSE NaN
    [] v.t = "array" -> StringToNumber(ArrayToString(v.a))
    [] OTHER -> NaN

JsIsNaN(v) == JsToNumber(v) = NaN

\* x < y and x > y with y a number literal: both sides go through ToNumber and
\* a NaN operand makes the comparison false.
NumberLess(a, b) == a # NaN /\ b # NaN /\ a.n < b.n

JsLess(x, y) == NumberLess(JsToNumber(x), JsToNumber(y))

JsGreater(x, y) == JsLess(y, x)

\* x === y on primitives
StrictEquals(x, y) == x.t # "NaN" /\ x.t \notin {"array", "object"} /\ x = y

\* obj[key]
Get(o, key) == IF key \in DOMAIN o THEN o[key] ELSE Undef

----------------------------------------------------------------------------
(* middleware/validation.js *)

requiredFields ==
  <<"Age", "BMI", "Waist_Circumference_cm", "Fasting_Glucose_mg_dL",
    "HbA1c_percent", "Systolic_BP_mmHg", "Diastolic_BP_mmHg",
    "Family_History_Diabetes", "Hypertension", "Physical_Activity_Hours_Week">>

\* the presence test without its empty-string case
IsMissingNullish(v) ==
  StrictEquals(v, Undef) \/ StrictEquals(v, Null)

IsMissing(v) ==
  StrictEquals(v, Undef) \/ StrictEquals(v, Null) \/ StrictEquals(v, Str(<<>>))

missingFields(patientData) ==
  LET absent(field) == IsMissing(Get(patientData, field))
      names == SelectSeq(requiredFields, absent)
  IN [i \in 1..Len(names) |-> Text(names[i])]

\* the range test without its isNaN guard
OutOfRangeUnguarded(v, lo, hi) ==
  JsLess(v, Num(lo)) \/ JsGreater(v, Num(hi))

\* the range test with both ends of the interval refused
OutOfRangeExclusive(v, lo, hi) ==
  JsIsNaN(v) \/ ~JsGreater(v, Num(lo)) \/ ~JsLess(v, Num(hi))

\* isNaN(x) || x < lo || x > hi
OutOfRange(v, lo, hi) ==
  JsIsNaN(v) \/ JsLess(v, Num(lo)) \/ JsGreater(v, Num(hi))

\* ![0, 1].includes(Number(x))
NotBinary(v) == JsToNumber(v) \notin {Num(0), Num(1)}

\* the ten checks, in source order; a flag has no interval
Checks ==
  <<[field |-> "Age", flag |-> FALSE, lo |-> 18, hi |-> 120,
     message |-> "Age must be a number between 18 and 120"],
    [field |-> "BMI", flag |-> FALSE, lo |-> 10, hi |-> 60,
     message |-> "BMI must be a number between 10 and 60"],
    [field |-> "Waist_Circumference_cm", flag |-> FALSE, lo |-> 30, hi |-> 200,
     message |-> "Waist circumference must be between 30 and 200 cm"],
    [field |-> "Fasting_Glucose_mg_dL", flag |-> FALSE, lo |-> 50, hi |-> 500,
     message |-> "Fasting glucose must be between 50 and 500 mg/dL"],
    [field |-> "HbA1c_percent", flag |-> FALSE, lo |-> 3, hi |-> 20,
     message |-> "HbA1c must be between 3 and 20%"],
    [field |-> "Systolic_BP_mmHg", flag |-> FALSE, lo |-> 70, hi |-> 300,
     message |-> "Systolic BP must be between 70 and 300 mmHg"],
    [field |-> "Diastolic_BP_mmHg", flag |-> FALSE, lo |-> 40, hi |-> 200,
     message |-> "Diastolic BP must be between 40 and 200 mmHg"],
    [field |-> "Family_History_Diabetes", flag |-> TRUE, lo |-> 0, hi |-> 1,
     message |-> "Family_History_Diabetes must be 0 or 1"],
    [field |-> "Hypertension", flag |-> TRUE, lo |-> 0, hi |-> 1,
     message |-> "Hypertension must be 0 or 1"],
    [field |-> "Physical_Activity_Hours_Week", flag |-> FALSE, lo |-> 0, hi |-> 50,
     message |-> "Physical activity must be between 0 and 50 hours per week"]>>

\* the condition of one if statement
CheckFails(c, v) == IF c.flag THEN NotBinary(v) ELSE OutOfRange(v, c.lo, c.hi)

\* validationErrors after the ten if statements: the messages pushed, in order
validationErrors(patientData) ==
  LET fails(c) == CheckFails(c, Get(patientData, c.field))
      pushed == SelectSeq(Checks, fails)
  IN [i \in 1..Len(pushed) |-> Text(pushed[i].message)]

\* req.body rebuilt with the waist circumference converted to millimetres
normalizedBodyInMillimetres(patientData) ==
  Obj([f \in {requiredFields[i] : i \in 1..Len(requiredFields)} |->
         IF f = "Waist_Circumference_cm" /\ JsToNumber(Get(patientData, f)) # NaN
         THEN Dec(JsToNumber(Get(patientData, f)).n * 10)
         ELSE JsToNumber(Get(patientData, f))])

\* req.body keeping every key it came with, the ten fields made numbers
normalizedBodyKeepingKeys(patientData) ==
  Obj([f \in DOMAIN patientData |->
         IF f \in {requiredFields[i] : i \in 1..Len(requiredFields)}
         THEN JsToNumber(patientData[f]) ELSE patientData[f]])

\* req.body rebuilt from the ten fields as they were given
normalizedBodyAsGiven(patientData) ==
  Obj([f \in {requiredFields[i] : i \in 1..Len(requiredFields)} |-> Get(patientData, f)])

\* req.body = { Age: Number(patientData.Age), ... }
normalizedBody(patientData) ==
  Obj([f \in {requiredFields[i] : i \in 1..Len(requiredFields)} |->
         JsToNumber(Get(patientData, f))])

\* Property reads on req.body: undefined and null throw a TypeError, an
\* array has none of the named keys.
Readable(reqBody) == reqBody.t \notin {"undefined", "null"}
Properties(reqBody) == IF reqBody.t = "object" THEN reqBody.o ELSE EmptyObject

validationFailure(clock) ==
  [status |-> 500,
   json |-> [error |-> Text("Validation processing failed"),
             message |-> Text("Cannot read properties of undefined"),
             timestamp |-> IsoTime(clock)]]

missingResponse(missing, clock) ==
  [status |-> 400,
   json |-> [error |-> Text("Missing required fields"),
             missing_fields |-> Arr(missing),
             timestamp |-> IsoTime(clock)]]

rangeResponse(errors, clock) ==
  [status |-> 400,
   json |-> [error |-> Text("Invalid data ranges"),
             validation_errors |-> Arr(errors),
             timestamp |-> IsoTime(clock)]]

\* the try block once missingFields and validationErrors are computed, with
\* the return of its range-error branch left out
validateFallThrough(reqBody, missing, errors, clock) ==
  IF Len(missing) > 0 THEN
    [responses |-> <<missingResponse(missing, clock)>>, next |-> 0, body |-> reqBody]
  ELSE
    [responses |-> IF Len(errors) > 0 THEN <<rangeResponse(errors, clock)>> ELSE <<>>,
     next |-> 1, body |-> normalizedBody(Properties(reqBody))]

\* the try block with its range-error branch returning without a response
validateSilent(reqBody, missing, errors, clock) ==
  IF Len(missing) > 0 THEN
    [responses |-> <<missingResponse(missing, clock)>>, next |-> 0, body |-> reqBody]
  ELSE IF Len(errors) > 0 THEN
    [responses |-> <<>>, next |-> 0, body |-> reqBody]
  ELSE
    [responses |-> <<>>, next |-> 1, body |-> normalizedBody(Properties(reqBody))]

\* the try block once missingFields and validationErrors are computed: the
\* responses written, the number of next() calls made, the req.body left
validate(reqBody, missing, errors, clock) ==
  IF Len(missing) > 0 THEN
    [responses |-> <<missingResponse(missing, clock)>>, next |-> 0, body |-> reqBody]
  ELSE IF Len(errors) > 0 THEN
    [responses |-> <<rangeResponse(errors, clock)>>, next |-> 0, body |-> reqBody]
  ELSE
    [responses |-> <<>>, next |-> 1, body |-> normalizedBody(Properties(reqBody))]

\* The whole middleware; reading a field of an undefined body throws and the
\* catch block answers 500.
validatePredictionInput(reqBody, clock) ==
  IF ~Readable(reqBody) THEN
    [responses |-> <<validationFailure(clock)>>, next |-> 0, body |-> reqBody]
  ELSE
    validate(reqBody, missingFields(Properties(reqBody)),
             validationErrors(Properties(reqBody)), clock)

----------------------------------------------------------------------------
(* routes/prediction.js: POST /predict *)

endpointName == Text("process.env.SAGEMAKER_ENDPOINT")

\* JSON.stringify followed by the receiver's parse: keys holding undefined
\* are dropped, NaN and undefined array elements become null.
RECURSIVE JsonStringify(_)
JsonStringify(v) ==
  CASE v.t = "NaN" -> Null
    [] v.t = "object" ->
         Obj([k \in {j \in DOMAIN v.o : v.o[j].t # "undefined"} |-> JsonStringify(v.o[k])])
    [] v.t = "array" ->
         Arr([i \in 1..Len(v.a) |->
                IF v.a[i].t = "undefined" THEN Null ELSE JsonStringify(v.a[i])])
    [] OTHER -> v

\* response.Body.toString() handed to JSON.parse: the text is either the
\* serialization of a JSON value or not JSON at all.
JsonParse(text) ==
  IF text.wellFormed THEN [ok |-> TRUE, value |-> text.value]
  ELSE [ok |-> FALSE, value |-> Undef]

SyntaxError ==
  [code |-> Undef, message |-> Text("Unexpected token < in JSON at position 0"),
   origin |-> "parse"]
TypeError ==
  [code |-> Undef, message |-> Text("Cannot read properties of null"),
   origin |-> "type"]

\* the chain with throttling answered as unavailability
ErrorTableThrottleAs503 ==
  <<[code |-> "ValidationException", statusCode |-> 400,
     errorMessage |-> "Invalid input data format"],
    [code |-> "AccessDenied", statusCode |-> 403,
     errorMessage |-> "Access denied to SageMaker endpoint"],
    [code |-> "ServiceUnavailable", statusCode |-> 503,
     errorMessage |-> "SageMaker service temporarily unavailable"],
    [code |-> "ThrottlingException", statusCode |-> 503,
     errorMessage |-> "Too many requests - rate limit exceeded"],
    [code |-> "ModelError", statusCode |-> 502,
     errorMessage |-> "Machine learning model error"]>>

\* The if / else-if chain of the catch block, in source order.
ErrorTable ==
  <<[code |-> "ValidationException", statusCode |-> 400,
     errorMessage |-> "Invalid input data format"],
    [code |-> "AccessDenied", statusCode |-> 403,
     errorMessage |-> "Access denied to SageMaker endpoint"],
    [code |-> "ServiceUnavailable", statusCode |-> 503,
     errorMessage |-> "SageMaker service temporarily unavailable"],
    [code |-> "ThrottlingException", statusCode |-> 429,
     errorMessage |-> "Too many requests - rate limit exceeded"],
    [code |-> "ModelError", statusCode |-> 502,
     errorMessage |-> "Machine learning model error"]>>

\* initial values that blame the service
DefaultUnavailable ==
  [statusCode |-> 503, errorMessage |-> "SageMaker service temporarily unavailable"]

\* initial values that blame the caller
DefaultInvalidInput ==
  [statusCode |-> 400, errorMessage |-> "Invalid input data format"]

DefaultClassification ==
  [statusCode |-> 500, errorMessage |-> "Internal server error"]

\* The first branch of the chain, taken in the given order, whose test
\* error.code === code succeeds; the initial values when none does.
RECURSIVE FirstMatch(_, _)
FirstMatch(table, error) ==
  IF Len(table) = 0 THEN DefaultClassification
  ELSE IF StrictEquals(error.code, Text(table[1].code))
       THEN [statusCode |-> table[1].statusCode, errorMessage |-> table[1].errorMessage]
       ELSE FirstMatch(Tail(table), error)

Classify(error) == FirstMatch(ErrorTable, error)

\* { ...result }: the own enumerable properties of an object, none for null
\* or a number.
Spread(v) == IF v.t = "object" THEN v.o ELSE EmptyObject

\* { k: over[k], ..., ...base }: the spread last, so its keys win
OverrideSpreadLast(base, over) ==
  [k \in DOMAIN base \cup DOMAIN over |-> IF k \in DOMAIN base THEN base[k] ELSE over[k]]

\* { ...base, k: over[k], ... }: later keys win.
Override(base, over) ==
  [k \in DOMAIN base \cup DOMAIN over |-> IF k \in DOMAIN over THEN over[k] ELSE base[k]]

\* res.json drops the keys whose value is undefined.
ResJson(o) == [k \in {j \in DOMAIN o : o[j].t # "undefined"} |-> o[k]]

RequestIdString(ms, rnd) == [t |-> "string", req |-> <<ms, rnd>>]

NoFrame ==
  [entered |-> FALSE, startTime |-> 0, requestId |-> Undef, sagemakerStartTime |-> 0,
   sagemakerEndTime |-> 0, nodeEnv |-> Undef]

\* the catch block answering without the request identifier
errorResponseAnonymous(c, error, fr, endTime, nodeEnv) ==
  [status |-> c.statusCode,
   json |-> ResJson(
     [error |-> Text(c.errorMessage),
      request_id |-> Undef,
      details |-> IF StrictEquals(nodeEnv, Text("development")) THEN error.message ELSE Undef,
      timestamp |-> IsoTime(endTime),
      processing_time_ms |-> Num(endTime - fr.startTime)])]

\* the catch block exposing the message whenever NODE_ENV is not production
errorResponseNonProduction(c, error, fr, endTime, nodeEnv) ==
  [status |-> c.statusCode,
   json |-> ResJson(
     [error |-> Text(c.errorMessage),
      request_id |-> fr.requestId,
      details |-> IF ~StrictEquals(nodeEnv, Text("production")) THEN error.message ELSE Undef,
      timestamp |-> IsoTime(endTime),
      processing_time_ms |-> Num(endTime - fr.startTime)])]

\* catch (error) of the /predict handler
errorResponse(c, error, fr, endTime, nodeEnv) ==
  [status |-> c.statusCode,
   json |-> ResJson(
     [error |-> Text(c.errorMessage),
      request_id |-> fr.requestId,
      details |-> IF StrictEquals(nodeEnv, Text("development")) THEN error.message ELSE Undef,
      timestamp |-> IsoTime(endTime),
      processing_time_ms |-> Num(endTime - fr.startTime)])]

predictCatch(error, fr, clock, nodeEnv) ==
  errorResponse(Classify(error), error, fr, clock, nodeEnv)

\* the enrichment with the total latency taken up to the start of the call
predictSuccessUpToCall(result, fr, clock) ==
  [status |-> 200,
   json |-> ResJson(Override(Spread(result),
     [request_id |-> fr.requestId,
      backend_processing_time_ms |-> Num(fr.sagemakerStartTime - fr.startTime),
      sagemaker_response_time_ms |-> Num(fr.sagemakerEndTime - fr.sagemakerStartTime),
      processed_at |-> IsoTime(clock),
      endpoint_used |-> endpointName,
      backend_version |-> Text("1.0.0")]))]

\* the try block after the awaited invokeEndpoint call has resolved at
\* fr.sagemakerEndTime; clock is Date.now() when enhancedResult is built
predictSuccess(result, fr, clock) ==
  [status |-> 200,
   json |-> ResJson(Override(Spread(result),
     [request_id |-> fr.requestId,
      backend_processing_time_ms |-> Num(clock - fr.startTime),
      sagemaker_response_time_ms |-> Num(fr.sagemakerEndTime - fr.sagemakerStartTime),
      processed_at |-> IsoTime(clock),
      endpoint_used |-> endpointName,
      backend_version |-> Text("1.0.0")]))]

----------------------------------------------------------------------------
(* routes/prediction.js: POST /predict-batch *)

invokeParams(item) ==
  [EndpointName |-> endpointName, ContentType |-> Text("application/json"),
   Body |-> JsonStringify(item)]

\* !Array.isArray(patients) || patients.length === 0
NotABatch(patients) == patients.t # "array" \/ Len(patients.a) = 0

\* the size test with >= in place of >
OverLimitInclusive(patients) == Len(patients.a) >= 10

\* patients.length > 10
OverLimit(patients) == Len(patients.a) > 10

successEntry(i, result) ==
  Obj([patient_index |-> Num(i), result |-> result, status |-> Text("success")])

failedEntry(i, error) ==
  Obj([patient_index |-> Num(i), error |-> error.message, status |-> Text("failed")])

\* results.filter(r => r.status === status).length
CountStatus(rs, status) ==
  LET has(r) == StrictEquals(Get(r.o, "status"), Text(status))
  IN Len(SelectSeq(rs, has))

\* the summary answered as a failure when no item succeeded
batchSummaryAllOrNothing(rs, patients, clock) ==
  [status |-> IF CountStatus(rs, "success") = 0 THEN 500 ELSE 200,
   json |-> [batch_results |-> Arr(rs),
             total_patients |-> Num(Len(patients.a)),
             successful_predictions |-> Num(CountStatus(rs, "success")),
             failed_predictions |-> Num(CountStatus(rs, "failed")),
             processed_at |-> IsoTime(clock)]]

batchSummary(rs, patients, clock) ==
  [status |-> 200,
   json |-> [batch_results |-> Arr(rs),
             total_patients |-> Num(Len(patients.a)),
             successful_predictions |-> Num(CountStatus(rs, "success")),
             failed_predictions |-> Num(CountStatus(rs, "failed")),
             processed_at |-> IsoTime(clock)]]

batchRejection(message, clock) ==
  [status |-> 400, json |-> [error |-> Text(message), timestamp |-> IsoTime(clock)]]

\* the entry one loop iteration pushes, from the way its awaited call settled
\* a response that does not parse still recorded as a success
parsedEntryLenient(i, parsed) == successEntry(i, parsed.value)

parsedEntry(i, parsed) ==
  IF parsed.ok THEN successEntry(i, parsed.value) ELSE failedEntry(i, SyntaxError)

batchEntry(i, outcome) ==
  IF outcome.rejected THEN failedEntry(i, outcome.error)
  ELSE parsedEntry(i, JsonParse(outcome.response.Body))

----------------------------------------------------------------------------
(* components/PatientForm.js *)

\* parseFloat of a string: the longest prefix, after leading white space,
\* that is a decimal literal; NaN when there is none
ParseFloat(v) ==
  IF v.t # "string" \/ "s" \notin DOMAIN v THEN JsToNumber(v)
  ELSE LET w == TrimLeft(v.s)
           K == {k \in 1..Len(w) : SignedToNumber(SubSeq(w, 1, k)) # NaN}
       IN IF K = {} THEN NaN
          ELSE SignedToNumber(SubSeq(w, 1, CHOOSE k \in K : \A j \in K : j <= k))

\* parseInt of a string: an optional sign and the longest run of digits after
\* it; NaN when there is no digit
ParseInt(v) ==
  IF v.t # "string" \/ "s" \notin DOMAIN v THEN JsToNumber(v)
  ELSE LET w == TrimLeft(v.s)
           K == {k \in 1..Len(w) :
                   /\ SignedToNumber(SubSeq(w, 1, k)) # NaN
                   /\ \A i \in 1..k : w[i] # "."}
       IN IF K = {} THEN NaN
          ELSE SignedToNumber(SubSeq(w, 1, CHOOSE k \in K : \A j \in K : j <= k))

\* useState of formData
initialFormData ==
  [f \in {requiredFields[i] : i \in 1..Len(requiredFields)} |->
     IF f \in {"Family_History_Diabetes", "Hypertension"} THEN Str(<<"0">>) ELSE Str(<<>>)]

\* the number controls with an Age control that allows up to 130 years
NumberControlsAgeTo130 ==
  <<[name |-> "Age", min |-> 18, max |-> 130, step |-> 10],
    [name |-> "BMI", min |-> 15, max |-> 50, step |-> 1],
    [name |-> "Waist_Circumference_cm", min |-> 50, max |-> 200, step |-> 10],
    [name |-> "Physical_Activity_Hours_Week", min |-> 0, max |-> 50, step |-> 5],
    [name |-> "Fasting_Glucose_mg_dL", min |-> 50, max |-> 300, step |-> 10],
    [name |-> "HbA1c_percent", min |-> 3, max |-> 15, step |-> 1],
    [name |-> "Systolic_BP_mmHg", min |-> 80, max |-> 220, step |-> 10],
    [name |-> "Diastolic_BP_mmHg", min |-> 40, max |-> 140, step |-> 10]>>

\* the Form.Control type="number" elements in document order: name, min,
\* max, and step in tenths (1 when the attribute is absent)
NumberControls ==
  <<[name |-> "Age", min |-> 18, max |-> 100, step |-> 10],
    [name |-> "BMI", min |-> 15, max |-> 50, step |-> 1],
    [name |-> "Waist_Circumference_cm", min |-> 50, max |-> 200, step |-> 10],
    [name |-> "Physical_Activity_Hours_Week", min |-> 0, max |-> 50, step |-> 5],
    [name |-> "Fasting_Glucose_mg_dL", min |-> 50, max |-> 300, step |-> 10],
    [name |-> "HbA1c_percent", min |-> 3, max |-> 15, step |-> 1],
    [name |-> "Systolic_BP_mmHg", min |-> 80, max |-> 220, step |-> 10],
    [name |-> "Diastolic_BP_mmHg", min |-> 40, max |-> 140, step |-> 10]>>

\* the Form.Select elements and the values of their options
SelectControls == <<"Family_History_Diabetes", "Hypertension">>
OptionValues == {Str(<<>>), Str(<<"0">>), Str(<<"1">>)}

\* constraint validation of a required number input: a value is there, it
\* is a number, not under min, not over max, and a whole number of steps
\* away from min
NumberControlValid(c, value) ==
  /\ value # Str(<<>>)
  /\ StringToNumber(value.s) # NaN
  /\ StringToNumber(value.s).n >= c.min * 10
  /\ StringToNumber(value.s).n <= c.max * 10
  /\ (StringToNumber(value.s).n - c.min * 10) % c.step = 0

\* constraint validation of a required select
SelectControlValid(value) == value \in OptionValues /\ value # Str(<<>>)

\* form.checkValidity()
checkValidity(data) ==
  /\ \A i \in 1..Len(NumberControls) :
       NumberControlValid(NumberControls[i], data[NumberControls[i].name])
  /\ \A i \in 1..Len(SelectControls) : SelectControlValid(data[SelectControls[i]])

\* processedData of handleSubmit
processedData(data) ==
  [f \in DOMAIN data |->
     IF f \in {"Family_History_Diabetes", "Hypertension"}
     THEN ParseInt(data[f]) ELSE ParseFloat(data[f])]

----------------------------------------------------------------------------
(* frontend services/sagemakerService.js *)

\* the service module has not been loaded: the environment is not read yet
Unread == [t |-> "unread"]

\* new Error(message)
Error(message) == [code |-> Undef, message |-> message, origin |-> "frontend"]

\* a template literal `${prefix}${rest}`
Concat(prefix, rest) == [t |-> "string", parts |-> <<prefix, rest>>]

\* ToBoolean
Truthy(v) ==
  CASE v.t \in {"undefined", "null", "NaN"} -> FALSE
    [] v.t = "boolean" -> v.b
    [] v.t = "number" -> v.n # 0
    [] v.t = "string" -> v # Str(<<>>)
    [] OTHER -> TRUE

\* !patientData || typeof patientData !== 'object'
NotAnObject(patientData) == ~Truthy(patientData) \/ patientData.t \notin {"object", "array"}

\* requiredFields.filter(...) of predictDiabetesRisk
serviceMissingFields(patientData) == missingFields(Properties(patientData))

\* const sagemakerRuntime = configureAWS(): null when the proxy is used
sagemakerRuntime(flag) ==
  IF StrictEquals(flag, Text("true")) THEN Null ELSE Text("new AWS.SageMakerRuntime()")

\* the request to the backend that predictDiabetesRiskViaBackend fetches
backendRequest(patientData) ==
  [target |-> "backend", url |-> Text("${REACT_APP_API_URL}/predict"),
   body |-> JsonStringify(patientData)]

\* the invokeEndpoint call of the direct path
endpointRequest(patientData) ==
  [target |-> "sagemaker", url |-> Text("process.env.REACT_APP_SAGEMAKER_ENDPOINT"),
   body |-> JsonStringify(patientData)]

\* the entry with the proxy path calling the endpoint as well
predictDiabetesRiskEntryBoth(patientData, flag) ==
  IF NotAnObject(patientData) THEN
    [threw |-> TRUE, error |-> Error(Text("Invalid patient data provided")), issued |-> <<>>,
     at |-> "settled"]
  ELSE IF Len(serviceMissingFields(patientData)) > 0 THEN
    [threw |-> TRUE,
     error |-> Error(Concat("Missing required fields: ", serviceMissingFields(patientData))),
     issued |-> <<>>, at |-> "settled"]
  ELSE IF StrictEquals(flag, Text("true")) THEN
    [threw |-> FALSE, error |-> Undef,
     issued |-> <<backendRequest(patientData), endpointRequest(patientData)>>,
     at |-> "fetching"]
  ELSE
    [threw |-> FALSE, error |-> Undef, issued |-> <<endpointRequest(patientData)>>,
     at |-> "invoking"]

\* predictDiabetesRisk up to its first await: the error it throws, or the
\* one request it issues and where it then waits
predictDiabetesRiskEntry(patientData, flag) ==
  IF NotAnObject(patientData) THEN
    [threw |-> TRUE, error |-> Error(Text("Invalid patient data provided")), issued |-> <<>>,
     at |-> "settled"]
  ELSE IF Len(serviceMissingFields(patientData)) > 0 THEN
    [threw |-> TRUE,
     error |-> Error(Concat("Missing required fields: ", serviceMissingFields(patientData))),
     issued |-> <<>>, at |-> "settled"]
  ELSE IF StrictEquals(flag, Text("true")) THEN
    [threw |-> FALSE, error |-> Undef, issued |-> <<backendRequest(patientData)>>,
     at |-> "fetching"]
  ELSE IF ~Truthy(sagemakerRuntime(flag)) THEN
    [threw |-> TRUE,
     error |-> Error(Text("SageMaker runtime not initialized. Check AWS configuration.")),
     issued |-> <<>>, at |-> "settled"]
  ELSE
    [threw |-> FALSE, error |-> Undef, issued |-> <<endpointRequest(patientData)>>,
     at |-> "invoking"]

\* error.message.includes('credentials')
MentionsCredentials(message) == message = Text("Missing credentials in config")

\* catch (error) of predictDiabetesRisk: the error it throws instead
serviceCatch(error) ==
  CASE StrictEquals(error.code, Text("ValidationException")) ->
         Error(Text("Invalid input data format. Please check all required fields are provided correctly."))
    [] StrictEquals(error.code, Text("ModelError")) ->
         Error(Text("Machine learning model prediction failed. Please try again or contact support."))
    [] StrictEquals(error.code, Text("ServiceUnavailable")) ->
         Error(Text("Prediction service is temporarily unavailable. Please try again in a few moments."))
    [] StrictEquals(error.code, Text("ThrottlingException")) ->
         Error(Text("Too many requests. Please wait a moment and try again."))
    [] StrictEquals(error.code, Text("NetworkingError")) ->
         Error(Text("Network connection issue. Please check your internet connection and try again."))
    [] StrictEquals(error.code, Text("UnknownEndpoint")) ->
         Error(Text("SageMaker endpoint not found. Please verify the endpoint configuration."))
    [] StrictEquals(error.code, Text("AccessDenied")) ->
         Error(Text("Access denied to SageMaker endpoint. Please check your AWS credentials."))
    [] StrictEquals(error.code, Text("CredentialsError")) \/ MentionsCredentials(error.message) ->
         Error(Text("AWS credentials not configured. Please set up AWS CLI or use environment variables."))
    [] OTHER ->
         Error(Concat("Prediction service error: ",
                      IF Truthy(error.message) THEN error.message
                      ELSE Text("An unexpected error occurred during prediction")))

\* a settled promise
Fulfilled(value) == [resolved |-> TRUE, value |-> value]
Failed(error) == [resolved |-> FALSE, value |-> error]

\* the direct path after its awaited invokeEndpoint call has resolved with
\* the body text: parse, validate the structure, enrich
directResult(text, clock) ==
  IF ~JsonParse(text).ok
    THEN Failed(Error(Text("Invalid response format from prediction service")))
  ELSE IF ~Truthy(JsonParse(text).value) \/ JsonParse(text).value.t \notin {"object", "array"}
    THEN Failed(Error(Text("Invalid response structure from SageMaker endpoint")))
  ELSE IF Truthy(Get(Properties(JsonParse(text).value), "error"))
    THEN Failed(Error(Concat("Model error: ", Get(Properties(JsonParse(text).value), "error"))))
  ELSE IF Get(Properties(JsonParse(text).value), "risk_level") = Undef
          \/ Get(Properties(JsonParse(text).value), "probability") = Undef
    THEN Failed(Error(Text("Invalid response format: missing risk_level or probability")))
  ELSE Fulfilled(Obj(Override(Spread(JsonParse(text).value),
         [endpoint_name |-> Text("process.env.REACT_APP_SAGEMAKER_ENDPOINT"),
          aws_region |-> Text("process.env.REACT_APP_AWS_REGION"),
          response_time_ms |-> Num(0),
          model_accuracy |-> Text("process.env.REACT_APP_MODEL_ACCURACY"),
          processed_at |-> IsoTime(clock),
          api_method |-> Text("direct_sagemaker")])))

\* predictDiabetesRiskViaBackend after its fetch has settled: a fetch that
\* failed, a response that is not ok, a body that is not JSON or names an
\* error all end in its catch
backendResult(outcome, clock) ==
  IF outcome.kind = "network"
    THEN Failed(Error(Text("Backend service unavailable. Please check if the backend server is running on port 3001.")))
  ELSE IF outcome.kind = "abort"
    THEN Failed(Error(Text("Request timeout. The backend service is taking too long to respond.")))
  ELSE IF ~outcome.ok
    THEN Failed(Error(Concat("Backend prediction failed: ",
                             Concat("HTTP ", <<outcome.status, outcome.text>>))))
  ELSE IF ~JsonParse(outcome.text).ok
    THEN Failed(Error(Concat("Backend prediction failed: ", SyntaxError.message)))
  ELSE IF JsonParse(outcome.text).value.t \in {"null", "undefined"}
    THEN Failed(Error(Concat("Backend prediction failed: ", TypeError.message)))
  ELSE IF Truthy(Get(Properties(JsonParse(outcome.text).value), "error"))
    THEN Failed(Error(Concat("Backend prediction failed: ",
                             Get(Properties(JsonParse(outcome.text).value), "error"))))
  ELSE Fulfilled(Obj(Override(Spread(JsonParse(outcome.text).value),
         [api_method |-> Text("backend_proxy"), processed_at |-> IsoTime(clock)])))

\* a rejection leaves predictDiabetesRisk through its catch
throughCatch(settled) ==
  IF settled.resolved THEN settled ELSE Failed(serviceCatch(settled.value))

----------------------------------------------------------------------------
(* Inputs *)

MaxBatch == 11
MaxMalformed == 1

MaxDeviations == 2
MaxClock == 1
MaxRequests == 2
MaxOtherEntries == 1
MaxConnections == 2
MaxSignals == 2

\* the record the endpoint health check sends
testData ==
  [Age |-> Num(45), BMI |-> Dec(250), Waist_Circumference_cm |-> Num(85),
   Fasting_Glucose_mg_dL |-> Num(95), HbA1c_percent |-> Dec(55),
   Systolic_BP_mmHg |-> Num(120), Diastolic_BP_mmHg |-> Num(80),
   Family_History_Diabetes |-> Num(0), Hypertension |-> Num(0),
   Physical_Activity_Hours_Week |-> Dec(50)]

FieldNames == {requiredFields[i] : i \in 1..Len(requiredFields)}
FlagFields == {"Family_History_Diabetes", "Hypertension"}

\* the closed interval the data model declares for each field
DeclaredRange(f) ==
  CASE f = "Age" -> [lo |-> 18, hi |-> 120]
    [] f = "BMI" -> [lo |-> 10, hi |-> 60]
    [] f = "Waist_Circumference_cm" -> [lo |-> 30, hi |-> 200]
    [] f = "Fasting_Glucose_mg_dL" -> [lo |-> 50, hi |-> 500]
    [] f = "HbA1c_percent" -> [lo |-> 3, hi |-> 20]
    [] f = "Systolic_BP_mmHg" -> [lo |-> 70, hi |-> 300]
    [] f = "Diastolic_BP_mmHg" -> [lo |-> 40, hi |-> 200]
    [] f = "Physical_Activity_Hours_Week" -> [lo |-> 0, hi |-> 50]
    [] OTHER -> [lo |-> 0, hi |-> 1]

\* values a caller may put in a field: the interval's ends, the nearest
\* values outside it, the three "missing" values (Undef stands for an absent
\* key) and a non-numeric string; where 0 and 1 are legal also a fraction and
\* the non-numbers that coerce to 0 or 1; for Age also a numeric string
SampleValues(f) ==
  LET r == DeclaredRange(f) IN
  {Undef, Null, Str(<<>>), Dec(r.lo * 10 - 1), Num(r.lo), Num(r.hi), Dec(r.hi * 10 + 1),
   Str(<<"a">>)}
  \cup (IF r.lo = 0 THEN {Dec(5), Str(<<" ">>), Bool(TRUE), Arr(<<>>)} ELSE {})
  \cup (IF f = "Age" THEN {Str(<<"9", "0">>), Str(<<"1", "7", ".", "9">>)} ELSE {})

AllSampleValues == UNION {SampleValues(f) : f \in FieldNames}

\* testData with the fields of D set to vals (an absent key when Undef)
Deviate(D, vals) ==
  [k \in FieldNames \ {f \in D : vals[f] = Undef} |->
     IF k \in D THEN vals[k] ELSE testData[k]]

\* the choices of at most k fields and of a sample value for each
Choices(k) ==
  {c \in UNION {[D -> AllSampleValues] : D \in {S \in SUBSET FieldNames : Cardinality(S) <= k}} :
     \A f \in DOMAIN c : c[f] \in SampleValues(f)}

\* request bodies other than objects of the ten fields: an object with one
\* more key, an array, and no parsed body at all
OtherBodies ==
  {Obj([k \in FieldNames \cup {"name"} |->
          IF k = "name" THEN Text("Patient")
          ELSE IF k = "Age" THEN Num(46) ELSE testData[k]]),
   Arr(<<>>), Undef}

underAge == [testData EXCEPT !.Age = Num(15)]
lackingBMI == [k \in FieldNames \ {"BMI"} |-> testData[k]]
InvalidItems == {Obj(underAge), Obj(lackingBMI)}

\* n patients told apart by their age
DistinctPatients(n) == [i \in 1..n |-> Obj([testData EXCEPT !.Age = Num(20 + i)])]

\* values of req.body.patients: arrays of 0..MaxBatch valid patients, such
\* arrays ending in an invalid patient, and values that are no array
PatientsValues ==
  {Arr(DistinctPatients(n)) : n \in 0..MaxBatch}
    \cup {Arr(Append(DistinctPatients(n - 1), bad)) : n \in 1..MaxBatch, bad \in InvalidItems}
    \cup {Undef, Null, Text("patients"), Obj(testData)}

BatchBodies == {Obj([patients |-> p]) : p \in PatientsValues \ {Undef}}
                 \cup {Obj(EmptyObject), Undef}

HighRisk == Text("High Risk")

MalformedText == [wellFormed |-> FALSE, value |-> Undef]
RiskText == [wellFormed |-> TRUE, value |-> Obj([risk_level |-> HighRisk, probability |-> Dec(8)])]
Timeout == [code |-> Text("TimeoutError"), message |-> Text("connection error"), origin |-> "transport"]

Resolved(text) == [rejected |-> FALSE, response |-> [Body |-> text], error |-> Undef]
Rejected(error) == [rejected |-> TRUE, response |-> Undef, error |-> error]

\* number of recorded items whose response could not be parsed
Malformed(rs) ==
  LET bad(r) == "error" \in DOMAIN r.o /\ r.o.error = SyntaxError.message
  IN Len(SelectSeq(rs, bad))

RandomSuffixes == {"k3j9x2m1q", "a0b1c2d3e"}
NodeEnvs == {Text("development"), Text("production"), Undef}

\* texts the endpoint may answer with
ResponseTexts ==
  {[wellFormed |-> TRUE, value |-> Obj([risk_level |-> HighRisk, probability |-> Dec(8)])],
   [wellFormed |-> TRUE, value |-> Obj([risk_level |-> HighRisk])],
   [wellFormed |-> TRUE,
    value |-> Obj([risk_level |-> HighRisk, probability |-> Dec(8),
                   request_id |-> Text("req_0_endpoint"), backend_version |-> Text("9.9.9")])],
   [wellFormed |-> TRUE, value |-> Null],
   [wellFormed |-> FALSE, value |-> Undef]}

\* codes of the endpoint's own failures and of the transport's failures
ServiceCodes ==
  {"ValidationException", "AccessDenied", "ServiceUnavailable", "ThrottlingException",
   "ModelError", "ValidationError", "AccessDeniedException", "InternalFailure"}
TransportCodes == {"TimeoutError", "NetworkingError", "UnknownEndpoint", "ETIMEDOUT"}

EndpointErrors ==
  {[code |-> Text(c), message |-> Text("service error"), origin |-> "service"] : c \in ServiceCodes}
    \cup {[code |-> Text(c), message |-> Text("connection error"), origin |-> "transport"] :
            c \in TransportCodes}
    \cup {[code |-> Undef, message |-> Text("socket hang up"), origin |-> "transport"],
          [code |-> Num(400), message |-> Text("bad request"), origin |-> "service"]}

----------------------------------------------------------------------------
(* The request pipeline *)

\* the requests the server has accepted connections for
Requests == 1..MaxRequests

\* what belongs to one request: req, res and the locals of its handler
IdleContext ==
  [pc |-> "idle", route |-> "none", body |-> Undef, sent |-> <<>>, nextCalls |-> 0,
   invokes |-> <<>>, replies |-> <<>>, thrown |-> <<>>, results |-> <<>>, idx |-> 0,
   frame |-> NoFrame]

Context ==
  [pc |-> pc, route |-> route, body |-> body, sent |-> sent, nextCalls |-> nextCalls,
   invokes |-> invokes, replies |-> replies, thrown |-> thrown, results |-> results,
   idx |-> idx, frame |-> frame]

Init ==
  /\ pc = "idle"
  /\ route = "none"
  /\ body = Undef
  /\ sent = <<>>
  /\ nextCalls = 0
  /\ invokes = <<>>
  /\ replies = <<>>
  /\ thrown = <<>>
  /\ results = <<>>
  /\ idx = 0
  /\ frame = NoFrame
  /\ now = 0
  /\ cur = 1
  /\ parked = [r \in Requests |-> IdleContext]
  /\ formData = initialFormData
  /\ validated = FALSE
  /\ isSubmitting = FALSE
  /\ loading = FALSE
  /\ predictionResult = Null
  /\ appError = Null
  /\ appPatientData = Null
  /\ fpc = "idle"
  /\ issued = <<>>
  /\ useBackendProxy = Unread
  /\ settlement = Undef
  /\ listening = TRUE
  /\ connections = 0
  /\ closeCallbacks = 0
  /\ timers = <<>>
  /\ signals = <<>>
  /\ exited = FALSE
  /\ exitCode = 0

\* a POST /predict request arrives with parsed body b
PostPredict(b) ==
  /\ pc = "idle"
  /\ pc' = "middleware"
  /\ route' = "predict"
  /\ body' = b
  /\ UNCHANGED <<sent, nextCalls, invokes, replies, thrown, results, idx, frame, now, cur, parked, formVars, frontVars, procVars>>

\* validatePredictionInput(req, res, next); the route handler is entered
\* only through next()
Middleware ==
  /\ pc = "middleware"
  /\ \E out \in {validatePredictionInput(body, now)} :
       /\ sent' = sent \o out.responses
       /\ nextCalls' = nextCalls + out.next
       /\ body' = out.body
       /\ pc' = IF out.next > 0 THEN "handler" ELSE "done"
  /\ UNCHANGED <<route, invokes, replies, thrown, results, idx, frame, now, cur, parked, formVars, frontVars, procVars>>

\* the /predict handler up to its await; the clock may advance between the
\* Date.now() of startTime and the one of sagemakerStartTime
PredictEnter(rnd) ==
  /\ pc = "handler"
  /\ route = "predict"
  /\ \E t \in now..MaxClock :
       /\ frame' = [entered |-> TRUE, startTime |-> now,
                    requestId |-> RequestIdString(now, rnd),
                    sagemakerStartTime |-> t, sagemakerEndTime |-> 0, nodeEnv |-> Undef]
       /\ now' = t
  /\ invokes' = Append(invokes, [EndpointName |-> endpointName,
                                 ContentType |-> Text("application/json"),
                                 Body |-> JsonStringify(body)])
  /\ pc' = "awaiting"
  /\ UNCHANGED <<route, body, sent, nextCalls, replies, thrown, results, idx, cur, parked, formVars, frontVars, procVars>>

\* time passes while the endpoint call is in flight
Tick ==
  /\ pc = "awaiting"
  /\ now < MaxClock
  /\ now' = now + 1
  /\ UNCHANGED <<pc, route, body, sent, nextCalls, invokes, replies, thrown, results, idx, frame, cur, parked, formVars, frontVars, procVars>>

\* the awaited call resolves: parse, log, enrich, respond; an exception on
\* the way goes to the catch block. sagemakerEndTime is the clock at the
\* resumption, t the later Date.now() of the response.
PredictResolved(response, nodeEnv) ==
  /\ pc = "awaiting"
  /\ replies' = Append(replies, [rejected |-> FALSE, response |-> response, error |-> Undef])
  /\ \E parsed \in {JsonParse(response.Body)} :
     \E t \in now..MaxClock :
       /\ now' = t
       /\ IF ~parsed.ok \/ parsed.value.t = "null"
          THEN \E error \in {IF ~parsed.ok THEN SyntaxError ELSE TypeError} :
                 /\ thrown' = Append(thrown, error)
                 /\ sent' = Append(sent, predictCatch(error, frame, t, nodeEnv))
                 /\ frame' = [frame EXCEPT !.sagemakerEndTime = now, !.nodeEnv = nodeEnv]
          ELSE /\ thrown' = thrown
               /\ frame' = [frame EXCEPT !.sagemakerEndTime = now]
               /\ sent' = Append(sent,
                    predictSuccess(parsed.value, [frame EXCEPT !.sagemakerEndTime = now], t))
  /\ pc' = "done"
  /\ UNCHANGED <<route, body, nextCalls, invokes, results, idx, cur, parked, formVars, frontVars, procVars>>

\* the catch block calling the endpoint a second time before it answers
PredictRejectedRetry(error, nodeEnv) ==
  /\ pc = "awaiting"
  /\ replies' = Append(replies, [rejected |-> TRUE, response |-> Undef, error |-> error])
  /\ thrown' = Append(thrown, error)
  /\ IF Len(invokes) < 2
     THEN /\ invokes' = Append(invokes, invokes[1])
          /\ pc' = "awaiting"
          /\ UNCHANGED <<sent, frame>>
     ELSE /\ sent' = Append(sent, predictCatch(error, frame, now, nodeEnv))
          /\ frame' = [frame EXCEPT !.nodeEnv = nodeEnv]
          /\ pc' = "done"
          /\ invokes' = invokes
  /\ UNCHANGED <<route, body, nextCalls, results, idx, now, cur, parked, formVars, frontVars, procVars>>

\* the awaited call rejects: the catch block classifies and responds
PredictRejected(error, nodeEnv) ==
  /\ pc = "awaiting"
  /\ replies' = Append(replies, [rejected |-> TRUE, response |-> Undef, error |-> error])
  /\ thrown' = Append(thrown, error)
  /\ sent' = Append(sent, predictCatch(error, frame, now, nodeEnv))
  /\ frame' = [frame EXCEPT !.nodeEnv = nodeEnv]
  /\ pc' = "done"
  /\ invokes' = invokes
  /\ UNCHANGED <<route, body, nextCalls, results, idx, now, cur, parked, formVars, frontVars, procVars>>

\* a POST /predict-batch request arrives; the route has no middleware
PostBatch(b) ==
  /\ pc = "idle"
  /\ pc' = "handler"
  /\ route' = "batch"
  /\ body' = b
  /\ UNCHANGED <<sent, nextCalls, invokes, replies, thrown, results, idx, frame, now, cur, parked, formVars, frontVars, procVars>>

\* the handler starting the calls of all items at once
BatchEnterFanOut ==
  /\ pc = "handler"
  /\ route = "batch"
  /\ IF ~Readable(body) THEN
       /\ sent' = Append(sent, [status |-> 500,
                                json |-> [error |-> Text("Batch prediction failed"),
                                          message |-> TypeError.message,
                                          timestamp |-> IsoTime(now)]])
       /\ pc' = "done"
       /\ UNCHANGED <<invokes, results, idx>>
     ELSE \E patients \in {Get(Properties(body), "patients")} :
       IF NotABatch(patients) THEN
         /\ sent' = Append(sent, batchRejection("Invalid batch data - expecting array of patients", now))
         /\ pc' = "done"
         /\ UNCHANGED <<invokes, results, idx>>
       ELSE IF OverLimit(patients) THEN
         /\ sent' = Append(sent, batchRejection("Batch size limited to 10 patients", now))
         /\ pc' = "done"
         /\ UNCHANGED <<invokes, results, idx>>
       ELSE
         /\ results' = <<>>
         /\ idx' = 0
         /\ invokes' = invokes \o [i \in 1..Len(patients.a) |-> invokeParams(patients.a[i])]
         /\ pc' = "batchAwaiting"
         /\ sent' = sent
  /\ UNCHANGED <<route, body, nextCalls, replies, thrown, frame, now, cur, parked, formVars, frontVars, procVars>>

\* the /predict-batch handler up to its first await, or to its response
\* when it rejects the batch
BatchEnter ==
  /\ pc = "handler"
  /\ route = "batch"
  /\ IF ~Readable(body) THEN
       /\ sent' = Append(sent, [status |-> 500,
                                json |-> [error |-> Text("Batch prediction failed"),
                                          message |-> TypeError.message,
                                          timestamp |-> IsoTime(now)]])
       /\ pc' = "done"
       /\ UNCHANGED <<invokes, results, idx>>
     ELSE \E patients \in {Get(Properties(body), "patients")} :
       IF NotABatch(patients) THEN
         /\ sent' = Append(sent, batchRejection("Invalid batch data - expecting array of patients", now))
         /\ pc' = "done"
         /\ UNCHANGED <<invokes, results, idx>>
       ELSE IF OverLimit(patients) THEN
         /\ sent' = Append(sent, batchRejection("Batch size limited to 10 patients", now))
         /\ pc' = "done"
         /\ UNCHANGED <<invokes, results, idx>>
       ELSE
         /\ results' = <<>>
         /\ idx' = 0
         /\ invokes' = Append(invokes, invokeParams(patients.a[1]))
         /\ pc' = "batchAwaiting"
         /\ sent' = sent
  /\ UNCHANGED <<route, body, nextCalls, replies, thrown, frame, now, cur, parked, formVars, frontVars, procVars>>

\* the loop leaving at the first failed item
BatchSettledAbort(outcome) ==
  /\ pc = "batchAwaiting"
  /\ replies' = Append(replies, outcome)
  /\ \E patients \in {Get(Properties(body), "patients")} :
     \E rs \in {Append(results, batchEntry(idx, outcome))} :
     \E i \in {idx + 1} :
        /\ results' = rs
        /\ idx' = i
        /\ IF i < Len(patients.a) /\ CountStatus(rs, "failed") = 0
           THEN /\ invokes' = Append(invokes, invokeParams(patients.a[i + 1]))
                /\ pc' = "batchAwaiting"
                /\ sent' = sent
           ELSE /\ sent' = Append(sent, batchSummary(rs, patients, now))
                /\ pc' = "done"
                /\ invokes' = invokes
  /\ UNCHANGED <<route, body, nextCalls, thrown, frame, now, cur, parked, formVars, frontVars, procVars>>

\* the awaited call of iteration idx settles: push the entry, then either
\* start the next iteration's call or send the summary
BatchSettled(outcome) ==
  /\ pc = "batchAwaiting"
  /\ replies' = Append(replies, outcome)
  /\ \E patients \in {Get(Properties(body), "patients")} :
     \E rs \in {Append(results, batchEntry(idx, outcome))} :
     \E i \in {idx + 1} :
        /\ results' = rs
        /\ idx' = i
        /\ IF i < Len(patients.a)
           THEN /\ invokes' = Append(invokes, invokeParams(patients.a[i + 1]))
                /\ pc' = "batchAwaiting"
                /\ sent' = sent
           ELSE /\ sent' = Append(sent, batchSummary(rs, patients, now))
                /\ pc' = "done"
                /\ invokes' = invokes
  /\ UNCHANGED <<route, body, nextCalls, thrown, frame, now, cur, parked, formVars, frontVars, procVars>>

Next ==
  \/ pc = "idle" /\ \E b \in BatchBodies : PostBatch(b)
  \/ BatchEnter
  \/ BatchSettled(Resolved(RiskText))
  \/ BatchSettled(Rejected(Timeout))
  \/ Malformed(results) < MaxMalformed /\ BatchSettled(Resolved(MalformedText))
  \/ pc = "idle" /\ \E c \in Choices(1) : PostPredict(Obj(Deviate(DOMAIN c, c)))
  \/ pc = "idle" /\ \E b \in OtherBodies : PostPredict(b)
  \/ Middleware
  \/ \E rnd \in RandomSuffixes : PredictEnter(rnd)
  \/ Tick
  \/ \E r \in ResponseTexts, e \in NodeEnvs : PredictResolved([Body |-> r], e)
  \/ \E err \in EndpointErrors, e \in NodeEnvs : PredictRejected(err, e)

Spec == Init /\ [][Next]_vars

\* the middleware alone, over the wider set of bodies
NextValidator ==
  \/ pc = "idle" /\ \E c \in Choices(MaxDeviations) : PostPredict(Obj(Deviate(DOMAIN c, c)))
  \/ pc = "idle" /\ \E b \in OtherBodies : PostPredict(b)
  \/ Middleware

SpecValidator == Init /\ [][NextValidator]_vars

\* the event loop resuming another request's handler with a results array
\* that is not the handler's own
SwitchSharingResults(r) ==
  /\ r \in Requests \ {cur}
  /\ pc \in {"awaiting", "batchAwaiting", "done"}
  /\ parked[r].pc # "done"
  /\ parked' = [parked EXCEPT ![cur] = Context, ![r] = IdleContext]
  /\ cur' = r
  /\ pc' = parked[r].pc
  /\ route' = parked[r].route
  /\ body' = parked[r].body
  /\ sent' = parked[r].sent
  /\ nextCalls' = parked[r].nextCalls
  /\ invokes' = parked[r].invokes
  /\ replies' = parked[r].replies
  /\ thrown' = parked[r].thrown
  /\ results' = results
  /\ idx' = parked[r].idx
  /\ frame' = parked[r].frame
  /\ now' = now
  /\ UNCHANGED <<formVars, frontVars, procVars>>

\* The running handler is suspended at its await, or has returned, and the
\* event loop goes on with request r: a connection not yet served, or a
\* handler whose awaited call can now settle. Each handler keeps its own req,
\* res and locals.
Switch(r) ==
  /\ r \in Requests \ {cur}
  /\ pc \in {"awaiting", "batchAwaiting", "done"}
  /\ parked[r].pc # "done"
  /\ parked' = [parked EXCEPT ![cur] = Context, ![r] = IdleContext]
  /\ cur' = r
  /\ pc' = parked[r].pc
  /\ route' = parked[r].route
  /\ body' = parked[r].body
  /\ sent' = parked[r].sent
  /\ nextCalls' = parked[r].nextCalls
  /\ invokes' = parked[r].invokes
  /\ replies' = parked[r].replies
  /\ thrown' = parked[r].thrown
  /\ results' = parked[r].results
  /\ idx' = parked[r].idx
  /\ frame' = parked[r].frame
  /\ now' = now
  /\ UNCHANGED <<formVars, frontVars, procVars>>

\* bodies of the requests served concurrently
ConcurrentPredictBodies == {Obj(testData), Obj(underAge)}
ConcurrentBatchBodies ==
  {Obj([patients |-> Arr(DistinctPatients(2))]), Obj([patients |-> Arr(<<>>)])}

\* several requests in the server at once, the event loop switching between
\* their handlers at the awaits
NextConcurrent ==
  \/ pc = "idle" /\ \E b \in ConcurrentPredictBodies : PostPredict(b)
  \/ pc = "idle" /\ \E b \in ConcurrentBatchBodies : PostBatch(b)
  \/ Middleware
  \/ \E rnd \in RandomSuffixes : PredictEnter(rnd)
  \/ Tick
  \/ PredictResolved([Body |-> RiskText], Text("development"))
  \/ PredictResolved([Body |-> MalformedText], Text("development"))
  \/ PredictRejected(Timeout, Text("development"))
  \/ BatchEnter
  \/ BatchSettled(Resolved(RiskText))
  \/ BatchSettled(Rejected(Timeout))
  \/ \E r \in Requests : Switch(r)

SpecConcurrent == Init /\ [][NextConcurrent]_vars

\* handleChange: the control called name now holds value
handleChange(name, value) ==
  /\ pc = "idle"
  /\ ~isSubmitting
  /\ formData' = [formData EXCEPT ![name] = value]
  /\ UNCHANGED <<pc, route, body, sent, nextCalls, invokes, replies, thrown, results, idx,
                 frame, now, cur, parked, validated, isSubmitting, frontVars, procVars>>

\* handleSubmit up to its await: a form that fails checkValidity only shows
\* its feedback; otherwise the converted record goes to onSubmit, which
\* posts it as JSON to the backend's /predict
handleSubmit ==
  /\ pc = "idle"
  /\ ~isSubmitting
  /\ IF ~checkValidity(formData)
     THEN /\ validated' = TRUE
          /\ UNCHANGED <<pc, route, body, isSubmitting>>
     ELSE /\ isSubmitting' = TRUE
          /\ pc' = "middleware"
          /\ route' = "predict"
          /\ body' = JsonStringify(Obj(processedData(formData)))
          /\ validated' = validated
  /\ UNCHANGED <<sent, nextCalls, invokes, replies, thrown, results, idx, frame, now, cur,
                 parked, formData, frontVars, procVars>>

\* handleSubmit after its await: finally { setIsSubmitting(false) }
submitSettled ==
  /\ isSubmitting
  /\ pc \in {"handler", "done"}
  /\ isSubmitting' = FALSE
  /\ UNCHANGED <<pc, route, body, sent, nextCalls, invokes, replies, thrown, results, idx,
                 frame, now, cur, parked, formData, validated, frontVars, procVars>>

\* what a user may type into a number control: either end of the allowed
\* interval, one step outside either end, and (where steps are wider than a
\* tenth) a value between two steps
ControlEntries(c) ==
  {Str(NumberToString(c.min * 10)), Str(NumberToString(c.max * 10)),
   Str(NumberToString(c.min * 10 - c.step)), Str(NumberToString(c.max * 10 + c.step))}
    \cup (IF c.step > 1 THEN {Str(NumberToString(c.min * 10 + 1))} ELSE {})

\* the controls holding something else than nothing or their minimum
OtherEntries(data) ==
  {i \in 1..Len(NumberControls) :
     data[NumberControls[i].name]
       \notin {Str(<<>>), Str(NumberToString(NumberControls[i].min * 10))}}

\* the user fills the number controls from the top, may come back to any
\* control already filled, and types the minimum in all but at most
\* MaxOtherEntries of them
Fillable(i, value) ==
  /\ \A j \in 1..(i - 1) : formData[NumberControls[j].name] # Str(<<>>)
  /\ Cardinality(OtherEntries([formData EXCEPT ![NumberControls[i].name] = value]))
       <= MaxOtherEntries

NextForm ==
  \/ \E i \in 1..Len(NumberControls) : \E value \in ControlEntries(NumberControls[i]) :
       Fillable(i, value) /\ handleChange(NumberControls[i].name, value)
  \/ \E i \in 1..Len(SelectControls) : \E value \in OptionValues :
       handleChange(SelectControls[i], value)
  \/ handleSubmit
  \/ Middleware
  \/ submitSettled

SpecForm == Init /\ [][NextForm]_vars

----------------------------------------------------------------------------
(* The frontend: App and the prediction service *)

\* values handed to handlePrediction
PatientInputs ==
  {Obj(testData), Obj(underAge), Obj(lackingBMI),
   Obj([testData EXCEPT !.BMI = Null]), Obj([testData EXCEPT !.Age = Str(<<>>)]),
   Arr(<<>>), Text("patient"), Null, Undef}

\* values of REACT_APP_USE_BACKEND_PROXY in a build
ProxyFlags == {Text("true"), Text("false"), Undef}

\* how the fetch of the backend may settle
FetchOutcomes ==
  {[kind |-> "response", ok |-> TRUE, status |-> 200, text |-> t] :
     t \in {RiskText, MalformedText,
            [wellFormed |-> TRUE, value |-> Null],
            [wellFormed |-> TRUE, value |-> Obj([error |-> Text("Prediction failed")])]}}
    \cup {[kind |-> "response", ok |-> FALSE, status |-> st,
           text |-> [wellFormed |-> TRUE, value |-> Obj([error |-> Text("Validation failed")])]] :
            st \in {400, 500}}
    \cup {[kind |-> "network", ok |-> FALSE, status |-> 0, text |-> MalformedText],
          [kind |-> "abort", ok |-> FALSE, status |-> 0, text |-> MalformedText]}

\* texts the endpoint may answer the browser with
DirectTexts ==
  ResponseTexts
    \cup {[wellFormed |-> TRUE, value |-> Obj([error |-> Text("model failed")])],
          [wellFormed |-> TRUE, value |-> Num(1)]}

\* failures of the browser's invokeEndpoint call
DirectErrors ==
  EndpointErrors
    \cup {[code |-> Text("CredentialsError"), message |-> Text("Missing credentials in config"),
           origin |-> "transport"],
          [code |-> Undef, message |-> Text("Missing credentials in config"),
           origin |-> "transport"]}

\* App.handlePrediction up to its first await; the form that calls it is
\* rendered only while nothing loads and no result is shown
handlePrediction(patientFormData) ==
  /\ fpc = "idle"
  /\ ~loading
  /\ predictionResult = Null
  /\ loading' = TRUE
  /\ appError' = Null
  /\ appPatientData' = patientFormData
  /\ issued' = <<>>
  /\ settlement' = Undef
  /\ fpc' = "importing"
  /\ UNCHANGED <<predictionResult, useBackendProxy, serverVars, formVars>>

\* await import('./services/sagemakerService'): the first import loads the
\* module, which reads the environment of the build
importService(flag) ==
  /\ fpc = "importing"
  /\ useBackendProxy = Unread \/ useBackendProxy = flag
  /\ useBackendProxy' = flag
  /\ fpc' = "called"
  /\ UNCHANGED <<loading, predictionResult, appError, appPatientData, issued, settlement,
                 serverVars, formVars>>

\* predictDiabetesRisk(patientFormData) up to its first await, or to the
\* error it throws before one
predictDiabetesRisk ==
  /\ fpc = "called"
  /\ issued' = issued \o predictDiabetesRiskEntry(appPatientData, useBackendProxy).issued
  /\ fpc' = predictDiabetesRiskEntry(appPatientData, useBackendProxy).at
  /\ settlement' =
       IF predictDiabetesRiskEntry(appPatientData, useBackendProxy).threw
       THEN throughCatch(Failed(predictDiabetesRiskEntry(appPatientData, useBackendProxy).error))
       ELSE Undef
  /\ UNCHANGED <<loading, predictionResult, appError, appPatientData, useBackendProxy,
                 serverVars, formVars>>

\* the fetch of predictDiabetesRiskViaBackend settles
fetchSettled(outcome) ==
  /\ fpc = "fetching"
  /\ settlement' = throughCatch(backendResult(outcome, now))
  /\ fpc' = "settled"
  /\ UNCHANGED <<loading, predictionResult, appError, appPatientData, issued,
                 useBackendProxy, serverVars, formVars>>

\* the invokeEndpoint promise of the direct path resolves
invokeResolved(text) ==
  /\ fpc = "invoking"
  /\ settlement' = throughCatch(directResult(text, now))
  /\ fpc' = "settled"
  /\ UNCHANGED <<loading, predictionResult, appError, appPatientData, issued,
                 useBackendProxy, serverVars, formVars>>

\* the invokeEndpoint promise of the direct path rejects
invokeRejected(error) ==
  /\ fpc = "invoking"
  /\ settlement' = throughCatch(Failed(error))
  /\ fpc' = "settled"
  /\ UNCHANGED <<loading, predictionResult, appError, appPatientData, issued,
                 useBackendProxy, serverVars, formVars>>

\* err.message || 'An unexpected error occurred during prediction'
errorMessage(err) ==
  IF Truthy(err.message) THEN err.message
  ELSE Text("An unexpected error occurred during prediction")

\* the settling with the flag reset at the end of try, not in finally
handlePredictionSettledInTry ==
  /\ fpc = "settled"
  /\ IF settlement.resolved
       THEN predictionResult' = settlement.value /\ loading' = FALSE /\ UNCHANGED appError
       ELSE appError' = Concat("Prediction failed: ", errorMessage(settlement.value))
            /\ UNCHANGED <<predictionResult, loading>>
  /\ fpc' = "idle"
  /\ UNCHANGED <<appPatientData, issued, useBackendProxy, settlement, serverVars, formVars>>

\* App.handlePrediction after its await: the rest of try, or catch, then
\* finally
handlePredictionSettled ==
  /\ fpc = "settled"
  /\ IF settlement.resolved
       THEN predictionResult' = settlement.value /\ UNCHANGED appError
       ELSE appError' = Concat("Prediction failed: ", errorMessage(settlement.value))
            /\ UNCHANGED predictionResult
  /\ loading' = FALSE
  /\ fpc' = "idle"
  /\ UNCHANGED <<appPatientData, issued, useBackendProxy, settlement, serverVars, formVars>>

\* App.handleReset, the onReset of the results shown
handleReset ==
  /\ fpc = "idle"
  /\ predictionResult # Null
  /\ predictionResult' = Null
  /\ appError' = Null
  /\ appPatientData' = Null
  /\ UNCHANGED <<loading, fpc, issued, useBackendProxy, settlement, serverVars, formVars>>

\* onClose of the error alert
dismissError ==
  /\ appError # Null
  /\ appError' = Null
  /\ UNCHANGED <<loading, predictionResult, appPatientData, fpc, issued, useBackendProxy,
                 settlement, serverVars, formVars>>

NextFrontend ==
  \/ \E patientFormData \in PatientInputs : handlePrediction(patientFormData)
  \/ \E flag \in ProxyFlags : importService(flag)
  \/ predictDiabetesRisk
  \/ \E outcome \in FetchOutcomes : fetchSettled(outcome)
  \/ \E text \in DirectTexts : invokeResolved(text)
  \/ \E error \in DirectErrors : invokeRejected(error)
  \/ handlePredictionSettled
  \/ handleReset
  \/ dismissError

SpecFrontend == Init /\ [][NextFrontend]_vars

----------------------------------------------------------------------------
(* server.js: the process and its termination *)

\* the delay of the forced-shutdown timer, in seconds
ForcedShutdownSeconds == 10

TerminationSignals == {"SIGTERM", "SIGINT"}

\* a client connects to the listening server
Connect ==
  /\ ~exited
  /\ listening
  /\ connections < MaxConnections
  /\ connections' = connections + 1
  /\ UNCHANGED <<listening, closeCallbacks, timers, signals, exited, exitCode>>
  /\ UNCHANGED <<pc, route, body, sent, nextCalls, invokes, replies, thrown, results, idx,
                 frame, now, cur, parked, formVars, frontVars>>

\* a connection ends
Disconnect ==
  /\ ~exited
  /\ connections > 0
  /\ connections' = connections - 1
  /\ UNCHANGED <<listening, closeCallbacks, timers, signals, exited, exitCode>>
  /\ UNCHANGED <<pc, route, body, sent, nextCalls, invokes, replies, thrown, results, idx,
                 frame, now, cur, parked, formVars, frontVars>>

\* gracefulShutdown without its forced-shutdown timer
gracefulShutdownUnforced(signal) ==
  /\ ~exited
  /\ Len(signals) < MaxSignals
  /\ signals' = Append(signals, signal)
  /\ listening' = FALSE
  /\ closeCallbacks' = closeCallbacks + 1
  /\ UNCHANGED <<timers, connections, exited, exitCode>>
  /\ UNCHANGED <<pc, route, body, sent, nextCalls, invokes, replies, thrown, results, idx,
                 frame, now, cur, parked, formVars, frontVars>>

\* process.on(signal, () => gracefulShutdown(signal)): server.close stops
\* the listening and registers its callback, setTimeout arms a timer
gracefulShutdown(signal) ==
  /\ ~exited
  /\ Len(signals) < MaxSignals
  /\ signals' = Append(signals, signal)
  /\ listening' = FALSE
  /\ closeCallbacks' = closeCallbacks + 1
  /\ timers' = Append(timers, ForcedShutdownSeconds)
  /\ UNCHANGED <<connections, exited, exitCode>>
  /\ UNCHANGED <<pc, route, body, sent, nextCalls, invokes, replies, thrown, results, idx,
                 frame, now, cur, parked, formVars, frontVars>>

\* the callback of server.close: the server emits 'close' once it neither
\* listens nor holds a connection
serverClosed ==
  /\ ~exited
  /\ ~listening
  /\ connections = 0
  /\ closeCallbacks > 0
  /\ exited' = TRUE
  /\ exitCode' = 0
  /\ UNCHANGED <<listening, connections, closeCallbacks, timers, signals>>
  /\ UNCHANGED <<pc, route, body, sent, nextCalls, invokes, replies, thrown, results, idx,
                 frame, now, cur, parked, formVars, frontVars>>

\* a second passes on the armed timers
SecondPasses ==
  /\ ~exited
  /\ timers # <<>>
  /\ \A i \in 1..Len(timers) : timers[i] > 0
  /\ timers' = [i \in 1..Len(timers) |-> timers[i] - 1]
  /\ UNCHANGED <<listening, connections, closeCallbacks, signals, exited, exitCode>>
  /\ UNCHANGED <<pc, route, body, sent, nextCalls, invokes, replies, thrown, results, idx,
                 frame, now, cur, parked, formVars, frontVars>>

\* the callback of setTimeout: a timer has run out
forcedShutdown ==
  /\ ~exited
  /\ \E i \in 1..Len(timers) : timers[i] = 0
  /\ exited' = TRUE
  /\ exitCode' = 1
  /\ UNCHANGED <<listening, connections, closeCallbacks, timers, signals>>
  /\ UNCHANGED <<pc, route, body, sent, nextCalls, invokes, replies, thrown, results, idx,
                 frame, now, cur, parked, formVars, frontVars>>

NextShutdown ==
  \/ Connect
  \/ Disconnect
  \/ \E signal \in TerminationSignals : gracefulShutdown(signal)
  \/ serverClosed
  \/ SecondPasses
  \/ forcedShutdown

SpecShutdown == Init /\ [][NextShutdown]_vars

\* the event loop runs the callbacks that are due and time passes; clients
\* need not ever disconnect
SpecShutdownFair ==
  SpecShutdown /\ WF_vars(serverClosed) /\ WF_vars(SecondPasses) /\ WF_vars(forcedShutdown)

----------------------------------------------------------------------------
(* Properties of the Field Validator *)

\* what the data model calls a missing value
Absent(v) == v \in {Undef, Null, Str(<<>>)}

\* the field's value is not a number, lies outside the declared interval, or
\* (for a flag) is not 0 or 1
Offending(f, v) ==
  LET x == JsToNumber(v)
      r == DeclaredRange(f)
  IN IF x = NaN THEN TRUE
     ELSE IF f \in FlagFields THEN x.n \notin {0, 10}
     ELSE x.n < r.lo * 10 \/ x.n > r.hi * 10

OffendingFields(o) == {f \in FieldNames : Offending(f, Get(o, f))}
AbsentFields(o) == {f \in FieldNames : Absent(Get(o, f))}

\* the field a range message names
NamedBy(msg) ==
  CASE msg = Text("Age must be a number between 18 and 120") -> "Age"
    [] msg = Text("BMI must be a number between 10 and 60") -> "BMI"
    [] msg = Text("Waist circumference must be between 30 and 200 cm") -> "Waist_Circumference_cm"
    [] msg = Text("Fasting glucose must be between 50 and 500 mg/dL") -> "Fasting_Glucose_mg_dL"
    [] msg = Text("HbA1c must be between 3 and 20%") -> "HbA1c_percent"
    [] msg = Text("Systolic BP must be between 70 and 300 mmHg") -> "Systolic_BP_mmHg"
    [] msg = Text("Diastolic BP must be between 40 and 200 mmHg") -> "Diastolic_BP_mmHg"
    [] msg = Text("Family_History_Diabetes must be 0 or 1") -> "Family_History_Diabetes"
    [] msg = Text("Hypertension must be 0 or 1") -> "Hypertension"
    [] msg = Text("Physical activity must be between 0 and 50 hours per week") ->
         "Physical_Activity_Hours_Week"
    [] OTHER -> "none"

HasKey(r, key) == key \in DOMAIN r.json

IsRangeError(r) == r.status = 400 /\ HasKey(r, "validation_errors")
IsMissingError(r) == r.status = 400 /\ HasKey(r, "missing_fields")

FieldsNamed(r) ==
  {NamedBy(r.json.validation_errors.a[i]) : i \in 1..Len(r.json.validation_errors.a)}

\* C1: a body with all ten fields present and at least one of them not a
\* number, outside its declared range, or (a flag) not 0 or 1 is answered by
\* the middleware with one 400 response whose validation_errors name every
\* offending field, and next() is not called.
C1_NoFalsePass ==
  [][(pc = "middleware" /\ body.t = "object"
        /\ AbsentFields(body.o) = {} /\ OffendingFields(body.o) # {})
     => /\ Len(sent') = Len(sent) + 1
        /\ IsRangeError(sent'[Len(sent')])
        /\ OffendingFields(body.o) \subseteq FieldsNamed(sent'[Len(sent')])
        /\ nextCalls' = nextCalls
        /\ pc' = "done"]_vars

\* a non-numeric string in a present field was answered with a range error
C1_Witness ==
  /\ pc = "done" /\ route = "predict" /\ body.t = "object"
  /\ AbsentFields(body.o) = {}
  /\ \E f \in FieldNames : Get(body.o, f) = Str(<<"a">>)
  /\ Cardinality(OffendingFields(body.o)) = 2
  /\ Len(sent) = 1 /\ IsRangeError(sent[1])
  /\ nextCalls = 0

\* the missing fields of a body, in declared order
ExpectedMissing(o) ==
  LET gone(f) == Absent(Get(o, f))
      names == SelectSeq(requiredFields, gone)
  IN Arr([i \in 1..Len(names) |-> Text(names[i])])

\* C2: a body with at least one field undefined, null or '' is answered with
\* one 400 response whose missing_fields are exactly those fields in declared
\* order and which has no validation_errors; no response carries both
\* missing_fields and validation_errors.
C2_MissingFirst ==
  [][/\ (pc = "middleware" /\ body.t \in {"object", "array"}
           /\ AbsentFields(Properties(body)) # {})
        => /\ Len(sent') = Len(sent) + 1
           /\ IsMissingError(sent'[Len(sent')])
           /\ sent'[Len(sent')].json.missing_fields = ExpectedMissing(Properties(body))
           /\ ~HasKey(sent'[Len(sent')], "validation_errors")
           /\ nextCalls' = nextCalls
     /\ \A i \in 1..Len(sent') :
          ~(HasKey(sent'[i], "missing_fields") /\ HasKey(sent'[i], "validation_errors"))
     /\ \A i \in 1..Len(sent') :
          IsRangeError(sent'[i]) => ~HasKey(sent'[i], "missing_fields")]_vars

\* one field is the empty string while a present field is out of range: only
\* the missing field is reported
C2_Witness ==
  /\ pc = "done" /\ route = "predict" /\ body.t = "object"
  /\ \E f \in FieldNames : Get(body.o, f) = Str(<<>>)
  /\ Cardinality(AbsentFields(body.o)) = 1
  /\ \E f \in FieldNames \ AbsentFields(body.o) : Offending(f, Get(body.o, f))
  /\ Len(sent) = 1 /\ IsMissingError(sent[1])
  /\ Len(sent[1].json.missing_fields.a) = 1
  /\ ~HasKey(sent[1], "validation_errors")

----------------------------------------------------------------------------
(* Properties of POST /predict *)

IsValidationResponse(r) ==
  \/ IsRangeError(r)
  \/ IsMissingError(r)
  \/ r.status = 500 /\ r.json.error = Text("Validation processing failed")

ValidationFailed == \E i \in 1..Len(sent) : IsValidationResponse(sent[i])

\* C3: a POST /predict request whose body fails the middleware (missing
\* field, range error, unreadable body) causes no invokeEndpoint call.
C3_ValidationNeverReachesEndpoint ==
  (route = "predict" /\ ValidationFailed) => Len(invokes) = 0

\* an under-age body was refused with a range error naming Age and the
\* endpoint was not called
C3_Witness ==
  /\ route = "predict" /\ pc = "done" /\ body.t = "object"
  /\ JsLess(Get(body.o, "Age"), Num(18))
  /\ Len(sent) = 1 /\ IsRangeError(sent[1])
  /\ "Age" \in FieldsNamed(sent[1])
  /\ Len(invokes) = 0

----------------------------------------------------------------------------
(* Properties of POST /predict-batch *)

Patients == Get(Properties(body), "patients")

\* the batch passed the array, non-empty and at-most-10 checks
AcceptedBatch ==
  /\ route = "batch" /\ body.t = "object"
  /\ Patients.t = "array" /\ Len(Patients.a) \in 1..10

\* the endpoint call failed or its response is not JSON
Fails(reply) == reply.rejected \/ ~reply.response.Body.wellFormed

FailedItems == {i \in 0..(Len(replies) - 1) : Fails(replies[i + 1])}

\* C4: an accepted batch of N items of which the set F fails is answered
\* with N entries, entry i carrying patient_index i and status failed iff i
\* is in F, and with the counts |F|, N - |F| and N.
C4_BatchSummary ==
  (pc = "done" /\ AcceptedBatch) =>
    /\ Len(sent) = 1 /\ sent[1].status = 200
    /\ Len(replies) = Len(Patients.a)
    /\ Len(sent[1].json.batch_results.a) = Len(Patients.a)
    /\ \A i \in 0..(Len(Patients.a) - 1) :
         /\ sent[1].json.batch_results.a[i + 1].o.patient_index = Num(i)
         /\ sent[1].json.batch_results.a[i + 1].o.status
              = Text(IF i \in FailedItems THEN "failed" ELSE "success")
    /\ sent[1].json.failed_predictions = Num(Cardinality(FailedItems))
    /\ sent[1].json.successful_predictions = Num(Len(Patients.a) - Cardinality(FailedItems))
    /\ sent[1].json.total_patients = Num(Len(Patients.a))

\* a batch of ten in which exactly one item failed
C4_Witness ==
  /\ pc = "done" /\ AcceptedBatch
  /\ Len(Patients.a) = 10
  /\ Cardinality(FailedItems) = 1
  /\ sent[1].json.failed_predictions = Num(1)
  /\ sent[1].json.successful_predictions = Num(9)

\* C5: in an accepted batch the endpoint is called once per item in index
\* order whatever the earlier outcomes were (N calls by the end), and an
\* item's recorded outcome is never changed by a later step.
C5_FailureIsolation ==
  [][(AcceptedBatch' /\ pc' \in {"batchAwaiting", "done"}) =>
       /\ Len(invokes') = IF pc' = "done" THEN Len(Patients.a)' ELSE Len(results') + 1
       /\ \A k \in 1..Len(invokes') : invokes'[k].Body = Patients'.a[k]
       /\ Len(results') = Len(replies')
       /\ \A k \in 1..Len(results) : results'[k] = results[k]]_vars

\* the first item failed and the later ones were still attempted
C5_Witness ==
  /\ pc = "done" /\ AcceptedBatch
  /\ Len(Patients.a) >= 3
  /\ Fails(replies[1]) /\ ~Fails(replies[2])
  /\ Len(invokes) = Len(Patients.a)
  /\ Len(results) = Len(Patients.a)

\* req.body.patients is no array, is empty, or has more than 10 items
RejectedBatch ==
  /\ route = "batch" /\ body.t = "object"
  /\ (Patients.t # "array" \/ Len(Patients.a) = 0 \/ Len(Patients.a) > 10)

\* C6: a batch that is no array, empty, or longer than 10 is answered 400
\* with the structural error and causes no endpoint call; a batch of exactly
\* 10 is processed.
C6_StructuralRejection ==
  /\ RejectedBatch => Len(invokes) = 0
  /\ (RejectedBatch /\ pc = "done") =>
       /\ Len(sent) = 1 /\ sent[1].status = 400
       /\ sent[1].json.error =
            Text(IF Patients.t = "array" /\ Len(Patients.a) > 10
                 THEN "Batch size limited to 10 patients"
                 ELSE "Invalid batch data - expecting array of patients")
  /\ (AcceptedBatch /\ Len(Patients.a) = 10 /\ pc = "done") =>
       /\ sent[1].status = 200
       /\ Len(invokes) = 10

\* a batch of eleven was refused without a call
C6_Witness ==
  /\ pc = "done" /\ RejectedBatch
  /\ Patients.t = "array" /\ Len(Patients.a) = 11
  /\ sent[1].status = 400
  /\ sent[1].json.error = Text("Batch size limited to 10 patients")
  /\ Len(invokes) = 0

\* C7: every batch item sent to the endpoint has passed the Field Validator
\* (no missing and no out-of-range field).
C7_BatchItemsValidated ==
  route = "batch" =>
    \A k \in 1..Len(invokes) : validatePredictionInput(Patients.a[k], now).next = 1

----------------------------------------------------------------------------
(* Properties of the error classification *)

MappedCodes ==
  {Text("ValidationException"), Text("AccessDenied"), Text("ServiceUnavailable"),
   Text("ThrottlingException"), Text("ModelError")}

Statuses == {400, 403, 429, 502, 503, 500}

\* the /predict handler caught an error and has answered
Caught == route = "predict" /\ pc = "done" /\ Len(thrown) > 0

\* C8: every error caught by the /predict handler gets exactly one response,
\* with a status among 400, 403, 429, 502, 503, 500; a code other than the five
\* mapped ones (or no code) gets 500 'Internal server error'.
C8_ClassificationTotal ==
  Caught =>
    /\ Len(thrown) = 1 /\ Len(sent) = 1
    /\ sent[1].status \in Statuses
    /\ thrown[1].code \notin MappedCodes =>
         /\ sent[1].status = 500
         /\ sent[1].json.error = Text("Internal server error")

\* an error without a code was answered 500
C8_Witness ==
  /\ Caught
  /\ thrown[1].code = Undef
  /\ sent[1].status = 500
  /\ sent[1].json.error = Text("Internal server error")

\* the status the classification table gives a code
TableStatus(code) ==
  CASE code = Text("ValidationException") -> 400
    [] code = Text("AccessDenied") -> 403
    [] code = Text("ServiceUnavailable") -> 503
    [] code = Text("ThrottlingException") -> 429
    [] code = Text("ModelError") -> 502
    [] OTHER -> 500

Orders(n) == {f \in [1..n -> 1..n] : \A i, j \in 1..n : f[i] = f[j] => i = j}

Reordered(table, f) == [i \in 1..Len(table) |-> table[f[i]]]

\* C9: the caught error's status follows the table (ValidationException 400,
\* AccessDenied 403, ServiceUnavailable 503, ThrottlingException 429,
\* ModelError 502), no two kinds share a status, and testing the codes in any
\* other order gives the same result.
C9_ClassificationTable ==
  Caught =>
    /\ sent[1].status = TableStatus(thrown[1].code)
    /\ \A c1, c2 \in MappedCodes \cup {Undef} :
         c1 # c2 => Classify([code |-> c1]).statusCode # Classify([code |-> c2]).statusCode
    /\ \A f \in Orders(Len(ErrorTable)) :
         FirstMatch(Reordered(ErrorTable, f), thrown[1]).statusCode = sent[1].status

\* a throttled call was answered 429
C9_Witness ==
  /\ Caught
  /\ thrown[1].code = Text("ThrottlingException")
  /\ sent[1].status = 429

\* C10: a call that times out or fails in the transport is answered 503 or
\* 500, never 400.
C10_TransportNotInvalidInput ==
  (Caught /\ thrown[1].origin = "transport") =>
    /\ sent[1].status \in {503, 500}
    /\ sent[1].status # 400

\* a timed-out call was answered 500
C10_Witness ==
  /\ Caught
  /\ thrown[1].origin = "transport"
  /\ thrown[1].code = Text("TimeoutError")
  /\ sent[1].status = 500

\* ---------------------------------------------------------------------
\* C11: a POST /predict request that passed validation issues exactly one
\* invokeEndpoint call, carrying the serialised normalised body, whether
\* the call succeeds or fails: none before the handler runs, one while the
\* call is awaited, still one (and one settled reply) once the response is
\* sent.
ValidatedPredict == route = "predict" /\ nextCalls = 1

C11_ExactlyOneInvocation ==
  ValidatedPredict =>
    /\ pc = "handler" => Len(invokes) = 0
    /\ pc \in {"awaiting", "done"} =>
         /\ Len(invokes) = 1
         /\ invokes[1].Body = JsonStringify(body)
    /\ pc = "awaiting" => Len(replies) = 0
    /\ pc = "done" => Len(replies) = 1 /\ Len(sent) = 1

\* a validated request whose call failed has answered after one call
C11_Witness ==
  /\ ValidatedPredict
  /\ pc = "done"
  /\ Len(thrown) = 1
  /\ replies[1].rejected
  /\ Len(invokes) = 1
  /\ sent[1].status = 503

\* ---------------------------------------------------------------------
\* C12 (as stated): every failure response of POST /predict, whether the
\* failure is a validation, an endpoint or a parsing failure, carries a
\* classified status, the request identifier and the elapsed processing
\* time.
PredictAnswered == route = "predict" /\ pc = "done" /\ Len(sent) = 1
PredictFailed == PredictAnswered /\ sent[1].status # 200

StatusByKindAlone ==
  /\ sent[1].status = Classify(thrown[1]).statusCode
  /\ \A e \in NodeEnvs : predictCatch(thrown[1], frame, now, e).status = sent[1].status

C13_DetailsOutsideProduction ==
  Caught =>
    /\ HasKey(sent[1], "details") <=> frame.nodeEnv # Text("production")
    /\ HasKey(sent[1], "details") => sent[1].json.details = thrown[1].message
    /\ StatusByKindAlone

\* C13 (amended): the response of the catch block has `details`, equal to
\* error.message, exactly when NODE_ENV is 'development'; it is withheld in
\* production and in every other context, an unset NODE_ENV included; its
\* status is the one the error's kind is classified to, whatever NODE_ENV is.
C13_DetailsInDevelopmentOnly ==
  Caught =>
    /\ HasKey(sent[1], "details") <=> frame.nodeEnv = Text("development")
    /\ HasKey(sent[1], "details") => sent[1].json.details = thrown[1].message
    /\ StatusByKindAlone

\* a throttled call answered 429 in development, with the original message
C13_Witness ==
  /\ Caught
  /\ frame.nodeEnv = Text("development")
  /\ thrown[1].code = Text("ThrottlingException")
  /\ sent[1].status = 429
  /\ sent[1].json.details = Text("service error")

\* ---------------------------------------------------------------------
\* C14: every 200 response of POST /predict contains risk_level and
\* probability; a reply of the endpoint lacking either one is not answered
\* as a success.
C14_SuccessHasRequiredFields ==
  (PredictAnswered /\ sent[1].status = 200) =>
    /\ HasKey(sent[1], "risk_level")
    /\ HasKey(sent[1], "probability")

\* ---------------------------------------------------------------------
\* C15: a reply of the endpoint that cannot be parsed is answered as a
\* failure of its own kind: not as a success, not as invalid input, and with
\* a status and error text that no other failure (a rejected call, a reply
\* that parses but cannot be read) is answered with.
Kind(r) == <<r.status, r.json.error>>
OtherFailures == EndpointErrors \cup {TypeError}

C15_MalformedResponseDistinguished ==
  (Caught /\ thrown[1].origin = "parse") =>
    /\ sent[1].status \notin {200, 400}
    /\ \A e \in OtherFailures :
         Kind(predictCatch(e, frame, now, frame.nodeEnv)) # Kind(sent[1])

\* ---------------------------------------------------------------------
\* C16: for a body whose ten fields are all present, numeric and inside
\* their closed intervals (the ends included), with both flags 0 or 1, the
\* middleware writes no response and calls next() exactly once.
IsNumeric(v) == v.t = "number" \/ (v.t = "string" /\ JsToNumber(v) # NaN)
Conforming(f, v) == ~Absent(v) /\ IsNumeric(v) /\ ~Offending(f, v)
ConformingBody(b) ==
  b.t = "object" /\ \A f \in FieldNames : Conforming(f, Get(b.o, f))

C16_ValidAccepted ==
  [][(pc = "middleware" /\ ConformingBody(body))
     => /\ sent' = sent
        /\ nextCalls' = nextCalls + 1
        /\ pc' = "handler"]_vars

\* a body with Age and BMI at opposite ends of their intervals was passed on
C16_Witness ==
  /\ route = "predict" /\ pc = "handler"
  /\ nextCalls = 1 /\ sent = <<>>
  /\ body.o.Age = Num(120)
  /\ body.o.BMI = Num(10)

\* ---------------------------------------------------------------------
\* C17: when the middleware accepts a body, the req.body it leaves holds
\* exactly the ten fields, each a number (not a string, a boolean or NaN)
\* equal to the numeric value of what was given, inside its interval, the
\* flags 0 or 1.
NumericValueOf(given, number) ==
  CASE given.t = "number" -> number = given
    [] given.t = "string" /\ given.s # <<>> /\ AllDigits(given.s) -> NumberToString(number.n) = given.s
    [] given.t = "boolean" -> number = (IF given.b THEN Num(1) ELSE Num(0))
    [] OTHER -> number = Num(0)

C17_NormalizedNumbers ==
  [][(pc = "middleware" /\ nextCalls' = nextCalls + 1)
     => /\ body'.t = "object"
        /\ DOMAIN body'.o = FieldNames
        /\ \A f \in FieldNames :
             /\ body'.o[f].t = "number"
             /\ NumericValueOf(Get(body.o, f), body'.o[f])
             /\ ~Offending(f, body'.o[f])]_vars

\* the string "90" given as Age and true given as Hypertension were passed
\* on as the numbers 90 and 1
C17_Witness ==
  /\ route = "predict" /\ pc = "handler" /\ nextCalls = 1
  /\ body.o.Age = Num(90)
  /\ body.o.Hypertension = Num(1)

\* ---------------------------------------------------------------------
\* C18: a batch that passed the structural checks (an array of 1 to 10
\* items) is never answered with an error: nothing is sent while items are
\* processed, and the one response is HTTP 200 with exactly the five keys of
\* the summary, also when no item succeeded.
SummaryKeys ==
  {"batch_results", "total_patients", "successful_predictions", "failed_predictions",
   "processed_at"}

C18_AcceptedBatchAnswers200 ==
  AcceptedBatch =>
    /\ pc # "done" => sent = <<>>
    /\ \A i \in 1..Len(sent) :
         /\ sent[i].status = 200
         /\ DOMAIN sent[i].json = SummaryKeys
         /\ sent[i].json.batch_results.t = "array"

\* a batch of three whose every call failed was answered 200 with zero
\* successes
C18_Witness ==
  /\ pc = "done" /\ AcceptedBatch
  /\ Len(Patients.a) = 3
  /\ Cardinality(FailedItems) = 3
  /\ sent[1].status = 200
  /\ sent[1].json.successful_predictions = Num(0)
  /\ sent[1].json.failed_predictions = Num(3)

\* ---------------------------------------------------------------------
\* C19: within one batch at most one invokeEndpoint call is in flight at any
\* time: while call i+1 is awaited the calls 1..i have all settled and their
\* i outcomes are in the results, and once the summary is sent no call is
\* outstanding.
InFlight == Len(invokes) - Len(replies)

C19_OneCallInFlight ==
  route = "batch" =>
    /\ InFlight \in {0, 1}
    /\ Len(replies) = Len(results)
    /\ pc = "batchAwaiting" =>
         /\ InFlight = 1
         /\ idx = Len(results)
         /\ invokes[Len(invokes)] = invokeParams(Patients.a[idx + 1])
    /\ pc # "batchAwaiting" => InFlight = 0

\* the third call of a batch is in flight, the first two have settled and
\* are recorded, the first of them as failed
C19_Witness ==
  /\ route = "batch" /\ pc = "batchAwaiting"
  /\ Len(invokes) = 3
  /\ Len(replies) = 2
  /\ Len(results) = 2
  /\ replies[1].rejected

\* ---------------------------------------------------------------------
\* C20: however the handlers of concurrent /predict and /predict-batch
\* requests are interleaved at their awaits, every request calls the
\* endpoint with its own data only, sends nothing before it is done, and
\* sends the response that its own body, its own endpoint replies and its
\* own locals (request identifier, start time) determine.
Clock == 0..MaxClock

predictAnswer(reply, fr, clock) ==
  IF reply.rejected THEN predictCatch(reply.error, fr, clock, fr.nodeEnv)
  ELSE IF ~JsonParse(reply.response.Body).ok THEN predictCatch(SyntaxError, fr, clock, fr.nodeEnv)
  ELSE IF JsonParse(reply.response.Body).value.t = "null"
    THEN predictCatch(TypeError, fr, clock, fr.nodeEnv)
  ELSE predictSuccess(JsonParse(reply.response.Body).value, fr, clock)

batchAnswer(patients, rs, clock) ==
  IF NotABatch(patients)
    THEN batchRejection("Invalid batch data - expecting array of patients", clock)
  ELSE IF OverLimit(patients) THEN batchRejection("Batch size limited to 10 patients", clock)
  ELSE batchSummary([i \in 1..Len(rs) |-> batchEntry(i - 1, rs[i])], patients, clock)

PatientsOf(c) == Get(Properties(c.body), "patients")

OwnCalls(c) ==
  CASE c.route = "predict" ->
         \A i \in 1..Len(c.invokes) : c.invokes[i].Body = JsonStringify(c.body)
    [] c.route = "batch" ->
         \A i \in 1..Len(c.invokes) : c.invokes[i] = invokeParams(PatientsOf(c).a[i])
    [] OTHER -> c.invokes = <<>>

OwnResponse(c) ==
  CASE c.route = "predict" /\ c.nextCalls = 0 ->
         \E t \in Clock : c.sent = validatePredictionInput(c.body, t).responses
    [] c.route = "predict" /\ c.nextCalls > 0 ->
         /\ Len(c.replies) = 1
         /\ \E t \in Clock : c.sent = <<predictAnswer(c.replies[1], c.frame, t)>>
    [] c.route = "batch" ->
         /\ ~NotABatch(PatientsOf(c)) => Len(c.replies) = Len(PatientsOf(c).a)
         /\ \E t \in Clock : c.sent = <<batchAnswer(PatientsOf(c), c.replies, t)>>
    [] OTHER -> FALSE

AllContexts == {Context} \cup {parked[r] : r \in Requests \ {cur}}

ContextOf(r) == IF r = cur THEN Context ELSE parked[r]

C21_RequestIdsUnique ==
  \A r1 \in Requests, r2 \in Requests :
    (r1 # r2 /\ ContextOf(r1).frame.entered /\ ContextOf(r2).frame.entered)
      => ContextOf(r1).frame.requestId # ContextOf(r2).frame.requestId

\* ---------------------------------------------------------------------
\* C22: a 200 response of POST /predict is the endpoint's parsed result with
\* request_id, backend_processing_time_ms, sagemaker_response_time_ms and
\* processed_at added: the total latency runs from the handler's start to
\* the response, the endpoint latency from the call to its settling, the
\* first is never smaller than the second, and every other field of the
\* result is in the response unchanged.
MetadataKeys ==
  {"request_id", "backend_processing_time_ms", "sagemaker_response_time_ms", "processed_at",
   "endpoint_used", "backend_version"}

PredictSucceeded == PredictAnswered /\ sent[1].status = 200
EndpointResult == JsonParse(replies[1].response.Body).value.o

C22_EnrichedResult ==
  PredictSucceeded =>
    /\ sent[1].json.request_id = frame.requestId
    /\ sent[1].json.backend_processing_time_ms = Num(now - frame.startTime)
    /\ sent[1].json.sagemaker_response_time_ms
         = Num(frame.sagemakerEndTime - frame.sagemakerStartTime)
    /\ sent[1].json.processed_at = IsoTime(now)
    /\ sent[1].json.backend_processing_time_ms.n >= sent[1].json.sagemaker_response_time_ms.n
    /\ DOMAIN sent[1].json = DOMAIN EndpointResult \cup MetadataKeys
    /\ \A k \in DOMAIN EndpointResult \ MetadataKeys : sent[1].json[k] = EndpointResult[k]

\* a result with risk level and probability was answered with both, the call
\* having taken one millisecond of a total of one
C22_Witness ==
  /\ PredictSucceeded
  /\ HasKey(sent[1], "probability")
  /\ sent[1].json.risk_level = HighRisk
  /\ sent[1].json.probability = Dec(8)
  /\ sent[1].json.sagemaker_response_time_ms = Num(1)
  /\ sent[1].json.backend_processing_time_ms = Num(1)

\* ---------------------------------------------------------------------
\* C23: a POST /predict request gets exactly one response. Once the
\* middleware has run it has either written one response (400 or 500) and
\* not called next(), or called next() once and written nothing; the handler
\* entered through next() writes nothing until it is done and then exactly
\* one response, the success (200, nothing caught) or the classified error
\* (one error caught).
C23_ExactlyOneResponse ==
  (route = "predict" /\ pc # "middleware") =>
    /\ nextCalls \in {0, 1}
    /\ Len(sent) <= 1
    /\ nextCalls = 0 =>
         /\ pc = "done" /\ Len(sent) = 1
         /\ sent[1].status \in {400, 500}
         /\ IsValidationResponse(sent[1])
    /\ (nextCalls = 1 /\ pc # "done") => sent = <<>>
    /\ (nextCalls = 1 /\ pc = "done") =>
         /\ Len(sent) = 1
         /\ ~IsValidationResponse(sent[1])
         /\ sent[1].status = 200 <=> thrown = <<>>
         /\ sent[1].status # 200 <=> Len(thrown) = 1

\* an accepted request whose reply parsed to null got the error response and
\* nothing else
C23_Witness ==
  /\ route = "predict" /\ pc = "done"
  /\ nextCalls = 1
  /\ Len(sent) = 1
  /\ thrown = <<TypeError>>
  /\ sent[1].status = 500

\* ---------------------------------------------------------------------
\* C24: the payload POST /predict serialises for the endpoint after a
\* successful validation is an object of exactly the ten required fields;
\* a further key of the caller's body is not in it.
C24_PayloadHasTenFields ==
  (ValidatedPredict /\ Len(invokes) > 0) =>
    /\ invokes[1].Body.t = "object"
    /\ DOMAIN invokes[1].Body.o = FieldNames
    /\ DOMAIN body.o = FieldNames

\* the body that came with the further key "name" (and Age 46) was sent to
\* the endpoint as the ten fields
C24_Witness ==
  /\ ValidatedPredict
  /\ Len(invokes) = 1
  /\ invokes[1].Body.o.Age = Num(46)
  /\ "name" \notin DOMAIN invokes[1].Body.o

\* ---------------------------------------------------------------------
\* C25: the middleware run again on the normalized body it left accepts it
\* (no response, one next()) and leaves a body equal to it field for field.
C25_ValidatorIdempotent ==
  (route = "predict" /\ pc = "handler") =>
    validatePredictionInput(body, now) = [responses |-> <<>>, next |-> 1, body |-> body]

\* the normalized body that came from Age "90" and a blank or zero activity
C25_Witness ==
  /\ route = "predict" /\ pc = "handler" /\ nextCalls = 1
  /\ body.o.Age = Num(90)
  /\ body.o.Physical_Activity_Hours_Week = Num(0)

\* ---------------------------------------------------------------------
\* C26: in a 200 response of POST /predict the six metadata keys hold the
\* values the handler computed, also when the endpoint's result has keys of
\* the same names.
HandlerMetadata ==
  [request_id |-> frame.requestId,
   backend_processing_time_ms |-> Num(now - frame.startTime),
   sagemaker_response_time_ms |-> Num(frame.sagemakerEndTime - frame.sagemakerStartTime),
   processed_at |-> IsoTime(now),
   endpoint_used |-> endpointName,
   backend_version |-> Text("1.0.0")]

C26_MetadataNotOverridable ==
  PredictSucceeded =>
    \A k \in MetadataKeys : HasKey(sent[1], k) /\ sent[1].json[k] = HandlerMetadata[k]

\* the endpoint's result named its own request_id and backend_version; the
\* response carries the handler's
C26_Witness ==
  /\ PredictSucceeded
  /\ "request_id" \in DOMAIN EndpointResult
  /\ EndpointResult.request_id = Text("req_0_endpoint")
  /\ EndpointResult.backend_version = Text("9.9.9")
  /\ sent[1].json.request_id = frame.requestId
  /\ sent[1].json.backend_version = Text("1.0.0")

----------------------------------------------------------------------------
(* Properties of the frontend *)

\* C27: a record that PatientForm lets through (checkValidity holds of the
\* controls' values) and converts with parseFloat / parseInt is accepted by
\* validatePredictionInput: next() is called, no missing-field and no range
\* response is written, and the validator's body is the converted record.
C27_FormRefinesValidator ==
  (route = "predict" /\ pc # "middleware") =>
    /\ checkValidity(formData)
    /\ pc = "handler"
    /\ nextCalls = 1
    /\ sent = <<>>
    /\ body = Obj(processedData(formData))

\* the form was submitted with Age at its maximum "100" and hypertension
\* selected, and the validator passed the record on
C27_Witness ==
  /\ route = "predict" /\ pc = "handler" /\ nextCalls = 1
  /\ formData.Age = Str(<<"1", "0", "0">>)
  /\ formData.Hypertension = Str(<<"1">>)
  /\ body.o.Age = Num(100)
  /\ body.o.Hypertension = Num(1)
  /\ body.o.BMI = Num(15)

\* the call predictDiabetesRisk(appPatientData) has passed its entry
ServiceCallEntered == fpc \in {"fetching", "invoking", "settled"}

\* the argument is no object, or a required field of it is undefined, null
\* or empty
UnusableArgument ==
  \/ appPatientData.t # "object"
  \/ \E f \in FieldNames : Absent(Get(Properties(appPatientData), f))

\* C28: a call of predictDiabetesRisk issues at most one outbound request:
\* none, and a rejection, when its argument is no object or lacks a required
\* field; otherwise exactly one, to the backend's /predict when
\* REACT_APP_USE_BACKEND_PROXY is 'true' and to the SageMaker endpoint
\* otherwise, never both.
C28_AtMostOneOutboundRequest ==
  /\ Len(issued) <= 1
  /\ fpc \in {"importing", "called"} => issued = <<>>
  /\ ServiceCallEntered /\ UnusableArgument =>
       issued = <<>> /\ fpc = "settled" /\ ~settlement.resolved
  /\ ServiceCallEntered /\ ~UnusableArgument =>
       /\ Len(issued) = 1
       /\ issued[1].target =
            IF useBackendProxy = Text("true") THEN "backend" ELSE "sagemaker"
       /\ issued[1].body = JsonStringify(appPatientData)

C28_Witness ==
  /\ fpc = "settled"
  /\ settlement.resolved
  /\ useBackendProxy = Text("true")
  /\ Len(issued) = 1
  /\ issued[1].target = "backend"

\* handlePrediction is between its start and the settling of the call
PredictionUnderWay == fpc # "idle"

\* the step in which handlePrediction resumes after the call has settled
PredictionSettles == fpc = "settled" /\ fpc' = "idle"

\* C29: in App.handlePrediction loading is true from the start of a
\* prediction until predictDiabetesRisk settles and is then reset to false,
\* however the call settled; when it resolved predictionResult is set and
\* error stays null, when it rejected error is set to a 'Prediction
\* failed: ...' message and predictionResult is left as it was.
C29_LoadingBracketsPrediction ==
  [][/\ PredictionUnderWay => loading /\ appError = Null
     /\ PredictionUnderWay' => loading'
     /\ ~PredictionUnderWay /\ PredictionUnderWay' => loading' /\ appError' = Null
     /\ PredictionSettles =>
          /\ loading' = FALSE
          /\ settlement.resolved =>
               /\ predictionResult' = settlement.value
               /\ predictionResult' # Null
               /\ appError' = Null
          /\ ~settlement.resolved =>
               /\ appError' = Concat("Prediction failed: ", settlement.value.message)
               /\ predictionResult' = predictionResult]_vars

C29_Witness ==
  /\ fpc = "idle"
  /\ ~loading
  /\ settlement # Undef
  /\ ~settlement.resolved
  /\ appError = Concat("Prediction failed: ", settlement.value.message)
  /\ predictionResult = Null
  /\ Len(issued) = 1

----------------------------------------------------------------------------
(* Properties of the process *)

\* a SIGTERM or SIGINT has been handled
Signalled == signals # <<>>

\* C30: after a SIGTERM or SIGINT the backend process eventually exits, with
\* code 0 once server.close has completed or with code 1 when the forced-
\* shutdown timer has fired first; it never keeps running after a
\* termination signal.
C30_SignalLeadsToExit ==
  /\ Signalled ~> exited
  /\ [](exited =>
         /\ Signalled
         /\ exitCode = 0 => ~listening /\ connections = 0
         /\ exitCode = 1 => \E i \in 1..Len(timers) : timers[i] = 0
         /\ exitCode \in {0, 1})

C30_Witness ==
  /\ exited
  /\ exitCode = 1
  /\ connections > 0
  /\ Len(signals) = 2

====
